---- MODULE Spec2Model ----
(***************************************************************************)
(* Model of Planning/20_build_master_snapshot_v5_6_stock_first_rank.py:    *)
(* the stateful stop engine and its persisted PositionState, the sleeve    *)
(* partition, the cluster risk totals, the rank score, the market regime   *)
(* detector and the entry gates of a run.                                  *)
(*                                                                         *)
(* Prices are integers on a grid on which every product the code forms     *)
(* (1.5*ATR, 2*ATR, 0.5*R) is again an integer: ATR, entry prices and the  *)
(* classification stop are even.  np.nan is the value NaN.                 *)
(***************************************************************************)
EXTENDS Integers, Sequences, FiniteSets, TLC

\* ------------------------------------------------------------------ bounds
MaxClose == 28
MaxStopHalf == 11
MaxListLen == 2
FirstBars == 208
MaxBars == 212
MaxQty == 2
MaxRsDropPct == 200

\* --------------------------------------------------------------- constants
NaN == -999
BE_TRIGGER_R_x2 == 3
PROFIT_PROTECTION_LOCK_HALF_R_THRESHOLD_x2 == 5
PROFIT_PROTECTION_LOCK_1R_THRESHOLD_x2 == 6
CHOP_ATR_TIGHTENING_MULT_x2 == 3
BE_ADX_MIN == 20
MIN_HOLD_DAYS_FOR_BE == 5
PROFIT_PROTECTION_ENABLED == TRUE
REGIME_STABILITY_ENABLED == TRUE
REGIME_STABILITY_DAYS == 3
regime_band_pct_x100 == 2
max_data_age_days == 5
\* datetime.now().strftime("%Y-%m-%d") and date.today().isoformat() of the run
today_str == "2025-03-01"

VARIABLES
    be_mode,      \* BE_CONDITION_MODE of the configuration
    posFile,      \* the row of positions_state.csv of the instrument
    row,          \* the row main built for the instrument in the last run
    st,           \* pos_state.get(t, {}) as the last run read it
    out,          \* what compute_stateful_stop returned for row and st
    ran,          \* how the last run treated the instrument
    lists,        \* the four universe lists, as read_list returns them
    tmap,         \* ticker_map.csv as read_ticker_map returns it
    dfu,          \* the universe after enforce_unique_underlyings
    bm1,          \* the first benchmark's price series
    bm2,          \* the second benchmark's price series
    labels,       \* one_regime's results of the last two days
    market,       \* what compute_market_regime returned
    inst,         \* what the run finds for the instrument it evaluates
    orow,         \* the instrument's row of the run's output
    pf,           \* the rows add_risk_columns is given
    cluster_map,  \* cluster_map.csv as read_cluster_map returns it
    risk,         \* the risk columns add_risk_columns adds
    caprow,       \* a row add_risk_columns is given, with its portfolio's totals
    caps,         \* the cap columns of that row at the end of the run
    cands,        \* the rows add_rank_score is given
    ranked,       \* the rank columns add_rank_score adds
    universe,     \* the universe of a run, in the order main evaluates it
    summary,      \* what that run wrote
    run_date,     \* the date of the run, datetime.now().strftime("%Y-%m-%d")
    whipsaw_info, \* what check_whipsaw_blocked returned in that run
    exits,        \* the dates of the stop-hit exits recorded so far
    add_info,     \* what compute_add_signals returned for row and st
    capin,        \* the portfolio and the configuration add_risk_columns is given
    cap_info,     \* the ceilings add_risk_columns chose for them
    phase         \* which specification's part of the state is live

stopVars == <<be_mode, posFile, row, st, out, ran>>
sleeveVars == <<lists, tmap, dfu>>
regimeVars == <<bm1, bm2, labels, market>>
gateVars == <<inst, orow>>
riskVars == <<pf, cluster_map, risk, caprow, caps>>
rankVars == <<cands, ranked>>
runVars == <<universe, summary>>
govVars == <<run_date, whipsaw_info, exits>>
addVars == <<add_info>>
stageVars == <<capin, cap_info>>
moreVars == <<govVars, addVars, stageVars>>
vars ==
    <<stopVars, sleeveVars, regimeVars, gateVars, riskVars, rankVars, runVars, moreVars,
      phase>>

isfinite(x) == x # NaN

\* a > b on floats: False when either side is NaN
gt(a, b) == isfinite(a) /\ isfinite(b) /\ a > b

\* Python's max(a, b): the first argument unless the second is greater
pymax(a, b) == IF gt(b, a) THEN b ELSE a

\* max(c, x) when c is finite, else x (the code's "raise the candidate" idiom)
raise(c, x) == IF isfinite(c) THEN pymax(c, x) ELSE x

\* ------------------------------------------------------ positions_state.csv
\* a cell of a text column read back by pandas: an empty cell is NaN and
\* str(NaN) is "nan"
read_str(cell) == IF cell \in {"", "nan"} THEN "nan" ELSE cell

\* the keys main's in-place update leaves out are read back with their
\* defaults: data.get("last_exit_profit_R", np.nan), data.get("whipsaw_count", 0)
NoState ==
    [has |-> FALSE, entry_price |-> NaN, initial_stop |-> NaN,
     active_stop |-> NaN, last_exit_date |-> "", last_exit_profit_R_x2 |-> NaN,
     last_exit_reason |-> "", whipsaw_count |-> 0, last_whipsaw_date |-> "",
     adds_taken |-> 0, entry_date |-> ""]

NoRow ==
    [present |-> FALSE, entry_price |-> NaN, initial_stop |-> NaN,
     active_stop |-> NaN, last_exit_date |-> "", last_exit_profit_R_x2 |-> NaN,
     last_exit_reason |-> "", whipsaw_count |-> NaN, last_whipsaw_date |-> "",
     adds_taken |-> NaN, entry_date |-> ""]

\* int(cell) of the whipsaw_count column: an empty cell is NaN, int(NaN)
\* raises and the except branch gives 0
read_int(cell) == IF isfinite(cell) THEN cell ELSE 0

read_positions_state(f) ==
    IF ~f.present THEN NoState
    ELSE [has |-> TRUE, entry_price |-> f.entry_price,
          initial_stop |-> f.initial_stop, active_stop |-> f.active_stop,
          last_exit_date |-> read_str(f.last_exit_date),
          last_exit_profit_R_x2 |-> f.last_exit_profit_R_x2,
          last_exit_reason |-> read_str(f.last_exit_reason),
          whipsaw_count |-> read_int(f.whipsaw_count),
          last_whipsaw_date |-> read_str(f.last_whipsaw_date),
          adds_taken |-> read_int(f.adds_taken),
          entry_date |-> read_str(f.entry_date)]

write_positions_state(s) ==
    IF ~s.has THEN NoRow
    ELSE IF ~isfinite(s.entry_price) /\ s.last_exit_date = "" THEN NoRow
    ELSE [present |-> TRUE, entry_price |-> s.entry_price,
          initial_stop |-> s.initial_stop, active_stop |-> s.active_stop,
          last_exit_date |-> s.last_exit_date,
          last_exit_profit_R_x2 |-> s.last_exit_profit_R_x2,
          last_exit_reason |-> s.last_exit_reason,
          whipsaw_count |-> s.whipsaw_count,
          last_whipsaw_date |-> s.last_whipsaw_date,
          adds_taken |-> s.adds_taken, entry_date |-> s.entry_date]

\* ---------------------------------------------------- compute_stateful_stop
NoOut ==
    [candidate_stop |-> NaN, active_stop |-> NaN, stop_reason |-> "",
     profit_protection_level |-> "", R |-> NaN, profit_x2 |-> NaN,
     base_candidate |-> NaN, has_update |-> FALSE,
     upd_entry |-> NaN, upd_initial |-> NaN, upd_adds |-> 0, upd_entry_date |-> ""]

sideways_applies(r) ==
    r.market_regime = "SIDEWAYS" /\ r.sleeve # "ETF_CORE"
    /\ isfinite(r.atr_14) /\ r.atr_14 > 0

\* candidate_stop after the sideways tightening
sideways_candidate(r) ==
    IF sideways_applies(r)
    THEN raise(r.stop_level, r.close - (CHOP_ATR_TIGHTENING_MULT_x2 * r.atr_14) \div 2)
    ELSE r.stop_level

\* the breakeven gate of BE_CONDITION_MODE; holding_days is not yet in the
\* row when main calls compute_stateful_stop, so row.get gives NaN
be_conditions_met(mode, r) ==
    CASE mode = "trend_only" ->
            /\ r.regime = "TREND"
            /\ isfinite(r.adx_14) /\ r.adx_14 >= BE_ADX_MIN
      [] mode = "after_days" ->
            isfinite(r.holding_days) /\ r.holding_days >= MIN_HOLD_DAYS_FOR_BE
      [] OTHER -> TRUE

\* the profit-protection tier reached: profit_R compared as 2*profit >= k*R
tier(mode, r, s) ==
    LET R == s.entry_price - s.initial_stop
        p2 == 2 * (r.close - s.entry_price)
    IN  IF ~(PROFIT_PROTECTION_ENABLED /\ isfinite(s.entry_price) /\ isfinite(s.initial_stop))
        THEN "OFF"
        ELSE IF R <= 0 THEN "NO_R"
        ELSE IF p2 >= PROFIT_PROTECTION_LOCK_1R_THRESHOLD_x2 * R THEN "3R"
        ELSE IF p2 >= PROFIT_PROTECTION_LOCK_HALF_R_THRESHOLD_x2 * R THEN "2.5R"
        ELSE IF p2 >= BE_TRIGGER_R_x2 * R
             THEN (IF be_conditions_met(mode, r) THEN "BE" ELSE "BE_BLOCKED")
        ELSE "NONE"

\* profit_stop_3R without the close - 2*ATR trailing option
profit_stop_3R_noTrail(r, s) ==
    LET lock_1r_stop == s.entry_price + (s.entry_price - s.initial_stop)
    IN  IF isfinite(r.low_20) THEN pymax(lock_1r_stop, r.low_20) ELSE lock_1r_stop

\* max(trailing_options)
profit_stop_3R(r, s) ==
    LET lock_1r_stop == s.entry_price + (s.entry_price - s.initial_stop)
        a == IF isfinite(r.low_20) THEN pymax(lock_1r_stop, r.low_20) ELSE lock_1r_stop
    IN  IF isfinite(r.atr_14) /\ r.atr_14 > 0 THEN pymax(a, r.close - 2 * r.atr_14) ELSE a

\* tier_candidate without the breakeven move
tier_candidate_noBE(mode, r, s, c) ==
    LET tr == tier(mode, r, s)
        R == s.entry_price - s.initial_stop
    IN  CASE tr = "3R" -> raise(c, profit_stop_3R(r, s))
          [] tr = "2.5R" -> raise(c, s.entry_price + R \div 2)
          [] OTHER -> c

tier_candidate(mode, r, s, c) ==
    LET tr == tier(mode, r, s)
        R == s.entry_price - s.initial_stop
    IN  CASE tr = "3R" -> raise(c, profit_stop_3R(r, s))
          [] tr = "2.5R" -> raise(c, s.entry_price + R \div 2)
          [] tr = "BE" -> raise(c, s.entry_price)
          [] OTHER -> c

tier_level(tr) ==
    CASE tr = "3R" -> "3R_LOCK_1R_TRAILING"
      [] tr = "2.5R" -> "2.5R_LOCK_HALF_R"
      [] tr = "BE" -> "1.5R_BREAKEVEN"
      [] tr = "BE_BLOCKED" -> "BE_BLOCKED"
      [] OTHER -> ""

\* stop_reason as the tiers leave it ("" when none wrote it)
tier_reason(tr, before) ==
    CASE tr = "3R" -> "lock +1R, trailing stop"
      [] tr = "2.5R" -> "lock +0.5R"
      [] tr = "BE" -> "breakeven stop"
      [] tr = "BE_BLOCKED" -> "BE blocked"
      [] OTHER -> before

\* active_stop = max(previous_active_stop, candidate_stop), never loosened
stateful_active_stop(prev, cand) ==
    IF isfinite(prev)
    THEN (IF isfinite(cand) THEN pymax(prev, cand) ELSE prev)
    ELSE cand

final_reason(reason, prev, active, cand) ==
    IF reason # "" THEN reason
    ELSE IF isfinite(prev) /\ gt(active, cand) THEN "STATEFUL (kept higher prev stop)"
    ELSE "NORMAL"

compute_stateful_stop(mode, r, s) ==
    IF ~r.is_held \/ ~isfinite(r.close) THEN NoOut
    ELSE
      LET c1 == sideways_candidate(r)
          reason1 == IF sideways_applies(r) THEN "SIDEWAYS_TIGHTENED" ELSE ""
          tr == tier(mode, r, s)
          c2 == tier_candidate(mode, r, s, c1)
          active == stateful_active_stop(s.active_stop, c2)
          has_R == tr # "OFF"
          R == s.entry_price - s.initial_stop
      IN  [candidate_stop |-> c2,
           active_stop |-> active,
           stop_reason |-> final_reason(tier_reason(tr, reason1), s.active_stop, active, c2),
           profit_protection_level |-> tier_level(tr),
           R |-> IF has_R THEN R ELSE NaN,
           profit_x2 |-> IF has_R /\ R > 0 THEN 2 * (r.close - s.entry_price) ELSE NaN,
           base_candidate |-> c1,
           has_update |-> TRUE,
           upd_entry |-> IF isfinite(s.entry_price) THEN s.entry_price ELSE r.t212_avg_price,
           upd_initial |-> IF isfinite(s.initial_stop) THEN s.initial_stop ELSE r.stop_level,
           upd_adds |-> s.adds_taken,
           upd_entry_date |-> IF s.entry_date # "" THEN s.entry_date
                              ELSE IF ~isfinite(s.entry_price) THEN today_str ELSE ""]

\* main's in-place update of pos_state[t]: a record of five fields, so the
\* exit bookkeeping keys are no longer in it
state_update(r, s, o) ==
    IF o.has_update /\ r.is_held
    THEN [NoState EXCEPT !.has = TRUE, !.entry_price = o.upd_entry,
                         !.initial_stop = o.upd_initial,
                         !.active_stop = o.active_stop,
                         !.adds_taken = o.upd_adds, !.entry_date = o.upd_entry_date]
    ELSE s

\* ------------------------------------------------- the universe and sleeves
\* A ticker of a list is its symbol, whether it ends in ".L", and its
\* Trading212 suffix; a Yahoo ticker (ticker_yf) is the symbol and ".L".
SLEEVE_PRIORITY(sleeve) ==
    CASE sleeve = "HEDGE" -> 0
      [] sleeve = "ETF_CORE" -> 1
      [] sleeve = "STOCK_CORE" -> 2
      [] sleeve = "STOCK_HIGH_RISK" -> 3
      [] OTHER -> 99

map_ticker(t, mapping) ==
    IF t \in DOMAIN mapping THEN mapping[t]
    ELSE CASE t.sfx = "_US_EQ" -> [sym |-> t.sym, dotL |-> t.dotL]
           [] t.sfx = "L_EQ" -> [sym |-> t.sym, dotL |-> TRUE]
           [] OTHER -> [sym |-> t.sym, dotL |-> t.dotL]

\* the rows main appends for one list
list_rows(l, sleeve, mapping) ==
    [i \in 1..Len(l) |->
        [ticker |-> l[i], ticker_yf |-> map_ticker(l[i], mapping), sleeve |-> sleeve]]

\* main: hedge first, then ETFs, core stocks, high-risk stocks
build_universe(ls, mapping) ==
    list_rows(ls.hedge, "HEDGE", mapping) \o list_rows(ls.etfs, "ETF_CORE", mapping)
      \o list_rows(ls.core, "STOCK_CORE", mapping)
      \o list_rows(ls.risk, "STOCK_HIGH_RISK", mapping)

\* the ticker_yf keys in the order groupby yields them (sorted)
SortedKeys ==
    <<[sym |-> "NVDA", dotL |-> FALSE], [sym |-> "VUSA", dotL |-> TRUE]>>

\* g.sort_values("__prio").iloc[0]: the first row of the least priority
\* number among the rows of universe u whose ticker_yf is key
keep_row_first(u, key) ==
    LET idx == {i \in 1..Len(u) : u[i].ticker_yf = key}
        k == CHOOSE i \in idx : \A j \in idx : j <= i
    IN  u[k]

keep_row(u, key) ==
    LET idx == {i \in 1..Len(u) : u[i].ticker_yf = key}
        best == {i \in idx : \A j \in idx :
                    SLEEVE_PRIORITY(u[i].sleeve) <= SLEEVE_PRIORITY(u[j].sleeve)}
        k == CHOOSE i \in best : \A j \in best : i <= j
    IN  u[k]

RECURSIVE keep_rows(_, _)
keep_rows(u, keys) ==
    IF keys = <<>> THEN <<>>
    ELSE IF \E i \in 1..Len(u) : u[i].ticker_yf = Head(keys)
         THEN <<keep_row(u, Head(keys))>> \o keep_rows(u, Tail(keys))
         ELSE keep_rows(u, Tail(keys))

enforce_unique_underlyings(u) ==
    IF u = <<>> THEN u ELSE keep_rows(u, SortedKeys)

Tickers ==
    {[sym |-> "NVDA", dotL |-> FALSE, sfx |-> ""],
     [sym |-> "NVDA", dotL |-> FALSE, sfx |-> "_US_EQ"],
     [sym |-> "VUSA", dotL |-> FALSE, sfx |-> "L_EQ"]}

\* a list as read_list returns it: no ticker twice
TickerLists ==
    {l \in UNION {[1..n -> Tickers] : n \in 0..MaxListLen} :
        \A i, j \in 1..Len(l) : l[i] = l[j] => i = j}

\* ticker_map.csv: empty, or one explicit mapping
TickerMaps ==
    {<<>>,
     [t \in {[sym |-> "NVDA", dotL |-> FALSE, sfx |-> ""]} |->
        [sym |-> "VUSA", dotL |-> TRUE]]}

NoLists == [hedge |-> <<>>, etfs |-> <<>>, core |-> <<>>, risk |-> <<>>]
IdleSleeve == lists = NoLists /\ tmap = <<>> /\ dfu = <<>>

\* ------------------------------------------------------- the market regime
\* A benchmark series is its last REGIME_STABILITY_DAYS + 1 bars (oldest
\* first; each bar is the close and that day's 200-day mean), its length n,
\* the age of its last bar, and whether raw holds the series at all.
UnknownRegime ==
    [regime |-> "UNKNOWN", regime_stable |-> FALSE, days_in_chop_band |-> 0]

in_band(bar) ==
    /\ (100 - regime_band_pct_x100) * bar.ma200 <= 100 * bar.close
    /\ 100 * bar.close <= (100 + regime_band_pct_x100) * bar.ma200

\* the loop over idx = -i that counts the consecutive days inside the band
RECURSIVE count_days_in_band(_, _, _)
count_days_in_band(bars, i, stop) ==
    IF i >= stop THEN 0
    ELSE LET bar == bars[Len(bars) - i + 1]
         IN  IF ~isfinite(bar.ma200) \/ bar.ma200 <= 0 THEN 0
             ELSE IF in_band(bar) THEN 1 + count_days_in_band(bars, i + 1, stop)
             ELSE 0

raw_regime(bar) ==
    IF 100 * bar.close >= (100 + regime_band_pct_x100) * bar.ma200 THEN "BULLISH"
    ELSE IF 100 * bar.close <= (100 - regime_band_pct_x100) * bar.ma200 THEN "BEARISH"
    ELSE "SIDEWAYS"

one_regime(bm) ==
    IF ~bm.present THEN UnknownRegime
    ELSE IF bm.n < 210 THEN UnknownRegime
    ELSE IF bm.age_days > max_data_age_days THEN UnknownRegime
    ELSE LET bar == bm.bars[Len(bm.bars)]
             stop == IF REGIME_STABILITY_DAYS + 2 < bm.n
                     THEN REGIME_STABILITY_DAYS + 2 ELSE bm.n
             days == IF REGIME_STABILITY_ENABLED
                     THEN count_days_in_band(bm.bars, 1, stop) ELSE 0
         IN  IF ~(isfinite(bar.close) /\ isfinite(bar.ma200) /\ bar.ma200 > 0)
             THEN UnknownRegime
             ELSE IF raw_regime(bar) = "SIDEWAYS" /\ REGIME_STABILITY_ENABLED
             THEN IF days < REGIME_STABILITY_DAYS
                  THEN [regime |-> IF bar.close > bar.ma200 THEN "BULLISH"
                                   ELSE "BEARISH",
                        regime_stable |-> FALSE, days_in_chop_band |-> days]
                  ELSE [regime |-> "SIDEWAYS", regime_stable |-> TRUE,
                        days_in_chop_band |-> days]
             ELSE [regime |-> raw_regime(bar), regime_stable |-> TRUE,
                   days_in_chop_band |-> days]

combine_regimes_any_bullish(r1, r2) ==
    IF r1 = "UNKNOWN" \/ r2 = "UNKNOWN" THEN "UNKNOWN"
    ELSE IF r1 = "BEARISH" \/ r2 = "BEARISH" THEN "BEARISH"
    ELSE IF r1 = "BULLISH" \/ r2 = "BULLISH" THEN "BULLISH"
    ELSE "SIDEWAYS"

\* "Combine regimes"
combine_regimes(r1, r2) ==
    IF r1 = "UNKNOWN" \/ r2 = "UNKNOWN" THEN "UNKNOWN"
    ELSE IF r1 = "BEARISH" \/ r2 = "BEARISH" THEN "BEARISH"
    ELSE IF r1 = "BULLISH" /\ r2 = "BULLISH" THEN "BULLISH"
    ELSE "SIDEWAYS"

NoMarket ==
    [market_regime |-> "", market_regime_stable |-> FALSE,
     market_days_in_chop_band |-> 0, market2_regime |-> ""]

\* benchmark2_yf is None when b2 is not configured
compute_market_regime(b1, b2) ==
    LET r1 == one_regime(b1)
    IN  IF b2.configured
        THEN LET r2 == one_regime(b2)
             IN  [market_regime |-> combine_regimes(r1.regime, r2.regime),
                  market_regime_stable |-> r1.regime_stable,
                  market_days_in_chop_band |-> r1.days_in_chop_band,
                  market2_regime |-> r2.regime]
        ELSE [market_regime |-> r1.regime,
              market_regime_stable |-> r1.regime_stable,
              market_days_in_chop_band |-> r1.days_in_chop_band,
              market2_regime |-> ""]

WindowLen == REGIME_STABILITY_DAYS + 1
NoBench ==
    [configured |-> FALSE, present |-> FALSE, bars |-> <<>>, n |-> 0, age_days |-> 0]
\* closes below the band, on its lower edge, inside it, on its upper edge and
\* above it for a 200-day mean of 100; one bar whose mean is not positive
Bars ==
    [close : {97, 98, 101, 102, 103}, ma200 : {100}] \cup {[close |-> 101, ma200 |-> 0]}
CoarseBars == [close : {97, 101, 103}, ma200 : {100}]
Ages == {0, max_data_age_days + 1}
\* the benchmarks whose regimes are combined
Benches ==
    [configured : {TRUE}, present : {TRUE}, bars : [1..WindowLen -> CoarseBars],
     n : {209, 210}, age_days : Ages]
      \cup {[configured |-> TRUE, present |-> FALSE, bars |-> <<>>, n |-> 0,
              age_days |-> 0]}
IdleRegime == bm1 = NoBench /\ bm2 = NoBench /\ labels = <<>> /\ market = NoMarket

\* ------------------------------------- the status and action of a run's row
\* What the run finds for the instrument is a record of the outcomes of the
\* checks main and classify make on its indicators and history.
EARLY_BIRD_ENABLED == TRUE
ADX_DIRECTION_FILTER == TRUE
ATR_PCT_CAP_ENABLED == TRUE
TREND_EFFICIENCY_GATE_ENABLED == TRUE
FAST_FOLLOWER_ENABLED == TRUE
HEAT_CHECK_ENABLED == TRUE
SWAP_LOGIC_ENABLED == TRUE

check_early_bird_eligible(i, r) ==
    /\ EARLY_BIRD_ENABLED
    /\ r.sleeve # "ETF_CORE"
    /\ r.market_regime = "BULLISH"
    /\ i.early_bird_criteria

\* the status classify returns; sleeve_status is what the sleeve's rules give
\* when no gate has returned before them
classify(i, r) ==
    IF ~r.is_held /\ i.data_anomaly THEN "IGNORE"
    ELSE IF ~r.is_held /\ ~i.liquidity_ok THEN "IGNORE"
    ELSE IF ~r.is_held /\ ADX_DIRECTION_FILTER /\ ~check_early_bird_eligible(i, r)
            /\ i.di_bearish THEN "IGNORE"
    ELSE IF ~r.is_held /\ ATR_PCT_CAP_ENABLED /\ i.atr_pct_over_cap THEN "IGNORE"
    ELSE IF ~r.is_held /\ r.market_regime \in {"BEARISH", "SIDEWAYS", "UNKNOWN"}
    THEN "IGNORE"
    ELSE i.sleeve_status

\* trend efficiency gate and whipsaw kill switch
ready_gates(i, status) ==
    IF status = "READY" /\ i.ready_downgraded THEN "WATCH" ELSE status

check_fast_follower_reentry(i, r) ==
    FAST_FOLLOWER_ENABLED /\ ~r.is_held /\ i.fast_follower_criteria

fast_follower_override(i, r, status) ==
    IF check_fast_follower_reentry(i, r) /\ ~r.is_held THEN "READY" ELSE status

\* "Strict BULLISH-only signals for new entries"
regime_override_held_only(r, status) ==
    IF r.is_held /\ r.market_regime # "BULLISH" THEN "IGNORE" ELSE status

regime_override(r, status) ==
    IF ~r.is_held /\ r.market_regime # "BULLISH" THEN "IGNORE" ELSE status

validation_block(i, r, status) ==
    IF ~i.validation_ok /\ ~r.is_held /\ status = "READY" THEN "WATCH" ELSE status

\* after the loop: the heat check keeps a blocked READY candidate on WATCH
heat_check(i, r, status) ==
    IF HEAT_CHECK_ENABLED /\ ~r.is_held /\ status \in {"READY", "WATCH"}
       /\ i.heat_blocked /\ status = "READY"
    THEN "WATCH" ELSE status

main_status(i, r) ==
    heat_check(i, r,
      validation_block(i, r,
        regime_override(r,
          fast_follower_override(i, r, ready_gates(i, classify(i, r))))))

compute_exit_signal(r, active_stop) ==
    IF ~r.is_held THEN ""
    ELSE IF r.sleeve = "ETF_CORE"
    THEN LET etf_stop == IF isfinite(active_stop) THEN active_stop ELSE r.low_20
         IN  IF gt(etf_stop, r.close) THEN "SELL" ELSE "HOLD"
    ELSE LET stop_level == IF isfinite(active_stop) THEN active_stop ELSE r.stop_level
         IN  IF gt(stop_level, r.close) THEN "SELL" ELSE "HOLD"

\* the overrides without their test for HOLD
main_held_action_advisory_first(i, r, active_stop) ==
    LET a0 == compute_exit_signal(r, active_stop)
        a1 == IF i.exit_override = "climax_sell" THEN "EXIT_CLIMAX" ELSE a0
        a2 == IF i.exit_override = "laggard" THEN "TRIM_LAGGARD" ELSE a1
    IN  IF SWAP_LOGIC_ENABLED /\ r.is_held /\ i.leader_found
        THEN "SWAP_FOR_LEADER" ELSE a2
\* climax exit, laggard purge and, after the loop, swap for leader
main_held_action(i, r, active_stop) ==
    LET a0 == compute_exit_signal(r, active_stop)
        a1 == IF i.exit_override = "climax_sell" /\ a0 = "HOLD" THEN "EXIT_CLIMAX"
              ELSE a0
        a2 == IF i.exit_override = "laggard" /\ a1 = "HOLD" THEN "TRIM_LAGGARD"
              ELSE a1
    IN  IF SWAP_LOGIC_ENABLED /\ r.is_held /\ i.leader_found /\ a2 = "HOLD"
        THEN "SWAP_FOR_LEADER" ELSE a2

NoInst ==
    [data |-> "", data_anomaly |-> FALSE, liquidity_ok |-> TRUE,
     early_bird_criteria |-> FALSE, di_bearish |-> FALSE, atr_pct_over_cap |-> FALSE,
     sleeve_status |-> "", ready_downgraded |-> FALSE,
     fast_follower_criteria |-> FALSE, validation_ok |-> TRUE, heat_blocked |-> FALSE,
     exit_override |-> "none", leader_found |-> FALSE]
NoORow ==
    [present |-> FALSE, skip_reason |-> "", status |-> "", held_action |-> "",
     active_stop |-> NaN]
IdleGate == inst = NoInst /\ orow = NoORow

\* ---------------------------------------------------------- the open risk
\* Amounts are whole pounds; fx_to_gbp_est is 1.
assign_cluster(ticker_yf, sleeve, cmap) ==
    IF ticker_yf \in DOMAIN cmap THEN cmap[ticker_yf]
    ELSE IF sleeve = "ETF_CORE" THEN "ETF_CORE"
    ELSE IF sleeve = "HEDGE" THEN "HEDGE"
    ELSE "STOCKS"

\* main: the snapshot's quantity says whether the instrument is held
is_held(r) == r.t212_quantity > 0

held_risk_gbp(r) ==
    LET held_stop_used == IF isfinite(r.active_stop) THEN r.active_stop
                          ELSE r.stop_level
        dist == IF isfinite(r.close) /\ isfinite(held_stop_used)
                THEN r.close - held_stop_used ELSE NaN
        held_stop_dist_local == IF isfinite(dist) /\ dist < 0 THEN 0 ELSE dist
    IN  IF ~is_held(r) THEN 0
        ELSE IF isfinite(held_stop_dist_local)
        THEN r.t212_quantity * held_stop_dist_local * r.fx_to_gbp_est
        ELSE NaN

\* Series.sum(skipna=True) of held_risk_gbp over the rows of idx
RECURSIVE sum_held_risk(_, _)
sum_held_risk(rows, idx) ==
    IF idx = {} THEN 0
    ELSE LET i == CHOOSE j \in idx : TRUE
             x == held_risk_gbp(rows[i])
         IN  (IF isfinite(x) THEN x ELSE 0) + sum_held_risk(rows, idx \ {i})

\* the columns of add_risk_columns that aggregate the held risk
add_risk_columns(rows, cmap) ==
    LET cl(i) == assign_cluster(rows[i].ticker_yf, rows[i].sleeve, cmap)
        all == DOMAIN rows
    IN  [open_risk_gbp_total |-> sum_held_risk(rows, all),
         open_risk_gbp_ex_hedge |->
            sum_held_risk(rows, {i \in all : rows[i].sleeve # "HEDGE"}),
         hedge_risk_gbp |->
            sum_held_risk(rows, {i \in all : rows[i].sleeve = "HEDGE"}),
         cluster |-> [i \in all |-> cl(i)],
         held_risk_gbp |-> [i \in all |-> held_risk_gbp(rows[i])],
         cluster_risk_gbp |->
            [i \in all |-> sum_held_risk(rows, {j \in all : cl(j) = cl(i)})]]

NoRisk ==
    [open_risk_gbp_total |-> 0, open_risk_gbp_ex_hedge |-> 0, hedge_risk_gbp |-> 0,
     cluster |-> <<>>, held_risk_gbp |-> <<>>, cluster_risk_gbp |-> <<>>]
NoCapRow == [ticker_yf |-> ""]
NoCaps == [status |-> ""]
IdleCaps == caprow = NoCapRow /\ caps = NoCaps
IdleRisk == pf = <<>> /\ cluster_map = <<>> /\ risk = NoRisk /\ IdleCaps

\* ---------------------------------------------------------- the rank score
\* Scores are counted in units of 0.005: 1.0 is ScoreUnit.  ADX, the volume
\* ratio and the extension are whole numbers, the distances, the range
\* position, the trend efficiency and the relative strength are percentages.
ScoreUnit == 200
TREND_EFFICIENCY_ENABLED == TRUE
RS_RANKING_ENABLED == TRUE
TREND_EFFICIENCY_BOOST_THRESHOLD_pct == 45
TREND_EFFICIENCY_PENALTY_THRESHOLD_pct == 30

clip(x, lo, hi) == IF x < lo THEN lo ELSE IF x > hi THEN hi ELSE x

rank_bucket(r) ==
    CASE r.sleeve = "STOCK_CORE" /\ r.regime = "TREND" -> 0
      [] r.sleeve = "STOCK_CORE" /\ r.regime = "RANGE" -> 1
      [] r.sleeve = "ETF_CORE" -> 2
      [] r.sleeve = "STOCK_HIGH_RISK" /\ r.regime = "TREND" -> 3
      [] r.sleeve = "STOCK_HIGH_RISK" /\ r.regime = "RANGE" -> 4
      [] OTHER -> NaN

\* the primary metric in percent (range_position_20 * 100.0)
rank_primary(r) ==
    CASE r.sleeve = "ETF_CORE" -> r.distance_to_55d_high_pct
      [] r.sleeve \in {"STOCK_CORE", "STOCK_HIGH_RISK"} /\ r.regime = "TREND" ->
            r.distance_to_20d_high_pct
      [] r.sleeve \in {"STOCK_CORE", "STOCK_HIGH_RISK"} /\ r.regime = "RANGE" ->
            r.range_position_20_pct
      [] OTHER -> NaN

rank_tie(r) ==
    (IF isfinite(r.adx_14) THEN -(r.adx_14 * ScoreUnit) \div 100 ELSE 0)
    + (IF isfinite(r.vol_ratio) THEN -(clip(r.vol_ratio, 0, 5) * ScoreUnit) \div 100
       ELSE 0)
    + (IF isfinite(r.extension_atr) THEN clip(r.extension_atr, -5, 5) \div 5 ELSE 0)
    + (IF TREND_EFFICIENCY_ENABLED /\ isfinite(r.trend_efficiency_pct)
          /\ r.trend_efficiency_pct >= TREND_EFFICIENCY_BOOST_THRESHOLD_pct
       THEN -(ScoreUnit \div 2) ELSE 0)
    + (IF TREND_EFFICIENCY_ENABLED /\ isfinite(r.trend_efficiency_pct)
          /\ r.trend_efficiency_pct < TREND_EFFICIENCY_PENALTY_THRESHOLD_pct
       THEN (3 * ScoreUnit) \div 10 ELSE 0)
    + (IF RS_RANKING_ENABLED /\ isfinite(r.rs_vs_benchmark_pct)
          /\ r.rs_vs_benchmark_pct > 0
       THEN -(clip(r.rs_vs_benchmark_pct * 2, 0, 50) * ScoreUnit) ELSE 0)
    + (IF RS_RANKING_ENABLED /\ isfinite(r.rs_vs_benchmark_pct)
          /\ r.rs_vs_benchmark_pct < 0
       THEN -((r.rs_vs_benchmark_pct * ScoreUnit) \div 2) ELSE 0)

rank_score_thousand(r) ==
    rank_bucket(r) * 1000 * ScoreUnit + rank_primary(r) * 1000 * ScoreUnit + rank_tie(r)

rank_score(r) ==
    rank_bucket(r) * 1000000 * ScoreUnit + rank_primary(r) * 1000 * ScoreUnit
      + rank_tie(r)

\* the columns add_rank_score adds to one row
add_rank_score(r) ==
    LET m == ~r.is_held /\ r.status \in {"READY", "WATCH"}
        ok == m /\ isfinite(rank_bucket(r)) /\ isfinite(rank_primary(r))
    IN  [rank_score |-> IF ok THEN rank_score(r) ELSE NaN,
         rankable |-> ok,
         rank_bucket |-> rank_bucket(r),
         rank_block_reason |->
            IF ok THEN ""
            ELSE IF r.is_held THEN "held_position"
            ELSE IF ~m THEN "status_not_ready_or_watch"
            ELSE IF ~isfinite(rank_primary(r)) THEN "missing_primary_metric"
            ELSE "missing_base_metric"]

IdleRank == cands = <<>> /\ ranked = <<>>

NoSummary == [completed |-> FALSE]
IdleRun == universe = <<>> /\ summary = NoSummary

NoWhipsaw == [whipsaw_blocked |-> FALSE, whipsaw_reason |-> "", whipsaw_count |-> 0]
IdleGov == run_date = "" /\ whipsaw_info = NoWhipsaw /\ exits = <<>>
NoAdd ==
    [add_eligible |-> FALSE, add_level_1_x2 |-> NaN, add_level_2_x2 |-> NaN,
     add_action |-> "", add_reason |-> ""]
IdleAdds == add_info = NoAdd
NoCapIn == [universe_size |-> 0]
NoCapInfo == [position_cap_mode |-> ""]
IdleStage == capin = NoCapIn /\ cap_info = NoCapInfo
IdleMore == IdleGov /\ IdleAdds /\ IdleStage

\* ------------------------------------------------------------- the inputs
Closes == {NaN, 17, 23, 25, 26} \cup {MaxClose}
Atrs == {NaN, 0, 2}
StopLevels == {NaN, 16} \cup {2 * MaxStopHalf}
Lows == {NaN, 23}
EntryPrices == {NaN, 20}
ExitDates == {"", "2025-01-10"}
Modes == {"none", "trend_only", "after_days"}
\* (sleeve, market regime) of the row
Markets ==
    {[sleeve |-> "STOCK_CORE", market_regime |-> "BULLISH"],
     [sleeve |-> "STOCK_CORE", market_regime |-> "SIDEWAYS"],
     [sleeve |-> "ETF_CORE", market_regime |-> "SIDEWAYS"]}
\* (regime, adx_14) of the row, which only BE_CONDITION_MODE trend_only reads
GateInputs(mode) ==
    IF mode = "trend_only"
    THEN {[regime |-> "TREND", adx_14 |-> 25], [regime |-> "TREND", adx_14 |-> 15],
          [regime |-> "TREND", adx_14 |-> NaN], [regime |-> "RANGE", adx_14 |-> 25]}
    ELSE {[regime |-> "TREND", adx_14 |-> 25]}

IdleRow ==
    [is_held |-> FALSE, close |-> NaN, atr_14 |-> NaN,
     low_20 |-> NaN, stop_level |-> NaN, sleeve |-> "STOCK_CORE",
     market_regime |-> "UNKNOWN", regime |-> "", adx_14 |-> NaN,
     holding_days |-> NaN, t212_avg_price |-> NaN]

NotHeldRow ==
    [is_held |-> FALSE, close |-> 23, atr_14 |-> 2,
     low_20 |-> NaN, stop_level |-> 16, sleeve |-> "STOCK_CORE",
     market_regime |-> "BULLISH", regime |-> "TREND", adx_14 |-> 25,
     holding_days |-> NaN, t212_avg_price |-> NaN]

\* the rows main can build: the 20-day low includes the latest close; the
\* stop engine returns at once on a row that is not held, so one such row
\* stands for all of them
Rows(mode) ==
    {NotHeldRow} \cup
    {r \in [is_held : {TRUE}, close : Closes, atr_14 : Atrs, low_20 : Lows,
            stop_level : StopLevels, sleeve : {"ETF_CORE", "STOCK_CORE"},
            market_regime : {"BULLISH", "SIDEWAYS"}, regime : {"TREND", "RANGE"},
            adx_14 : {NaN, 15, 25}, holding_days : {NaN}, t212_avg_price : EntryPrices] :
        /\ isfinite(r.low_20) => (isfinite(r.close) /\ r.low_20 <= r.close)
        /\ [sleeve |-> r.sleeve, market_regime |-> r.market_regime] \in Markets
        /\ [regime |-> r.regime, adx_14 |-> r.adx_14] \in GateInputs(mode)}


\* rows of positions_state.csv that write_positions_state can have written
\* the exit bookkeeping cells of a row: none, a profitable exit (+1.5R), two
\* stop-hit exits (-1R)
NoBook ==
    [last_exit_date |-> "", last_exit_profit_R_x2 |-> NaN, last_exit_reason |-> "",
     whipsaw_count |-> NaN, last_whipsaw_date |-> ""]
ExitBooks ==
    {NoBook,
     [last_exit_date |-> "2025-01-10", last_exit_profit_R_x2 |-> 3,
      last_exit_reason |-> "TARGET", whipsaw_count |-> 0, last_whipsaw_date |-> ""],
     [last_exit_date |-> "2025-01-10", last_exit_profit_R_x2 |-> -2,
      last_exit_reason |-> "STOP_HIT", whipsaw_count |-> 2,
      last_whipsaw_date |-> "2025-01-10"]}
FileRow(e, i, a, b) ==
    [present |-> TRUE, entry_price |-> e, initial_stop |-> i, active_stop |-> a,
     last_exit_date |-> b.last_exit_date,
     last_exit_profit_R_x2 |-> b.last_exit_profit_R_x2,
     last_exit_reason |-> b.last_exit_reason, whipsaw_count |-> b.whipsaw_count,
     last_whipsaw_date |-> b.last_whipsaw_date, adds_taken |-> 0, entry_date |-> ""]
FileRows ==
    {NoRow} \cup
    {f \in {FileRow(e, i, a, b) : e \in EntryPrices, i \in {NaN, 16, 18},
                                  a \in {NaN, 18, 22}, b \in ExitBooks} :
        /\ f.last_exit_date \in ExitDates
        /\ isfinite(f.entry_price) \/ f.last_exit_date # ""}

\* ------------------------------------------------- runs of main (SpecRuns)
\* the rows drawn in a sequence of runs
RunRows(mode) ==
    {r \in Rows(mode) : r.low_20 = NaN /\ r.atr_14 # 0 /\ r.sleeve = "STOCK_CORE"}

InitRuns ==
    /\ phase = "runs"
    /\ be_mode = "none"
    /\ IdleSleeve
    /\ IdleRegime
    /\ IdleGate /\ IdleRisk /\ IdleRank /\ IdleRun /\ IdleMore
    /\ posFile \in FileRows
    /\ ran = "none"
    /\ row = IdleRow
    /\ st = NoState
    /\ out = NoOut

\* one run of main over the instrument: read the state, evaluate the row,
\* update pos_state in place, write the state back
RunEvaluated ==
    /\ phase = "runs"
    /\ \E r \in RunRows(be_mode) :
         LET s == read_positions_state(posFile)
             o == compute_stateful_stop(be_mode, r, s)
         IN  /\ ran' = IF r.is_held THEN "held" ELSE "not_held"
             /\ st' = s
             /\ out' = o
             /\ posFile' = write_positions_state(state_update(r, s, o))
    /\ UNCHANGED <<be_mode, phase, row, sleeveVars, regimeVars, gateVars, riskVars, rankVars,
                   runVars, moreVars>>

\* a run that skips the instrument (too few bars, stale bar, exception)
RunSkipped ==
    /\ phase = "runs"
    /\ LET s == read_positions_state(posFile)
       IN  /\ ran' = "skipped"
           /\ st' = s
           /\ out' = NoOut
           /\ posFile' = write_positions_state(s)
    /\ UNCHANGED <<be_mode, phase, row, sleeveVars, regimeVars, gateVars, riskVars, rankVars,
                   runVars, moreVars>>

NextRuns == RunEvaluated \/ RunSkipped
SpecRuns == InitRuns /\ [][NextRuns]_vars

\* --------------------------------- compute_stateful_stop alone (SpecStop)
States ==
    {NoState} \cup
    [has : {TRUE}, entry_price : EntryPrices, initial_stop : {NaN, 16, 18},
     active_stop : {NaN, 18, 22, 24}, last_exit_date : {"nan"},
     last_exit_profit_R_x2 : {NaN}, last_exit_reason : {"nan"},
     whipsaw_count : {0}, last_whipsaw_date : {"nan"}, adds_taken : {0},
     entry_date : {"nan"}]

InitStop ==
    /\ phase = "stop"
    /\ IdleSleeve
    /\ IdleRegime
    /\ IdleGate /\ IdleRisk /\ IdleRank /\ IdleRun /\ IdleMore
    /\ be_mode \in Modes
    /\ posFile = NoRow
    /\ ran = "none"
    /\ row \in Rows(be_mode)
    /\ st \in States
    /\ out = NoOut

CallStop ==
    /\ phase = "stop"
    /\ ran = "none"
    /\ out' = compute_stateful_stop(be_mode, row, st)
    /\ ran' = IF row.is_held THEN "held" ELSE "not_held"
    /\ UNCHANGED <<be_mode, phase, posFile, row, st, sleeveVars, regimeVars, gateVars,
                   riskVars, rankVars, runVars, moreVars>>

NextStop == CallStop
SpecStop == InitStop /\ [][NextStop]_vars

\* ---------------------------------------- the universe of a run (SpecSleeve)
IdleStop ==
    /\ be_mode = "none" /\ posFile = NoRow /\ row = IdleRow /\ st = NoState
    /\ out = NoOut

InitSleeve ==
    /\ phase = "sleeve"
    /\ IdleStop
    /\ IdleRegime
    /\ IdleGate /\ IdleRisk /\ IdleRank /\ IdleRun /\ IdleMore
    /\ ran = "none"
    /\ lists \in [hedge : TickerLists, etfs : TickerLists, core : TickerLists,
                  risk : TickerLists]
    /\ tmap \in TickerMaps
    /\ dfu = <<>>

\* main builds the universe from the lists and makes the underlyings unique
BuildUniverse ==
    /\ phase = "sleeve"
    /\ ran = "none"
    /\ build_universe(lists, tmap) # <<>>
    /\ dfu' = enforce_unique_underlyings(build_universe(lists, tmap))
    /\ ran' = "built"
    /\ UNCHANGED <<be_mode, posFile, row, st, out, lists, tmap, phase, regimeVars,
                   gateVars, riskVars, rankVars, runVars, moreVars>>

NextSleeve == BuildUniverse
SpecSleeve == InitSleeve /\ [][NextSleeve]_vars

\* ------------------------------ one benchmark, day after day (SpecRegime)
InitRegime ==
    /\ phase = "regime"
    /\ IdleStop /\ ran = "none"
    /\ IdleSleeve
    /\ IdleGate /\ IdleRisk /\ IdleRank /\ IdleRun /\ IdleMore
    /\ bm1 \in [configured : {TRUE}, present : {TRUE}, bars : [1..WindowLen -> Bars],
                n : {FirstBars}, age_days : {0}]
    /\ bm2 = NoBench
    /\ labels = <<>>
    /\ market = NoMarket

\* the next day's run: the series has one more bar, of some age
NewDay ==
    /\ phase = "regime"
    /\ bm1.n < MaxBars
    /\ \E bar \in Bars, age \in Ages :
         LET b == [bm1 EXCEPT !.bars = Tail(bm1.bars) \o <<bar>>, !.n = bm1.n + 1,
                              !.age_days = age]
             m == compute_market_regime(b, bm2)
             today == [regime |-> m.market_regime,
                       regime_stable |-> m.market_regime_stable,
                       days_in_chop_band |-> m.market_days_in_chop_band]
         IN  /\ bm1' = b
             /\ market' = m
             /\ labels' = IF labels = <<>> THEN <<today>>
                          ELSE <<labels[Len(labels)], today>>
    /\ UNCHANGED <<stopVars, sleeveVars, bm2, phase, gateVars, riskVars, rankVars,
                   runVars, moreVars>>

NextRegime == NewDay
SpecRegime == InitRegime /\ [][NextRegime]_vars

\* ------------------------------------- two benchmarks combined (SpecCombine)
InitCombine ==
    /\ phase = "combine"
    /\ IdleStop /\ ran = "none"
    /\ IdleSleeve
    /\ IdleGate /\ IdleRisk /\ IdleRank /\ IdleRun /\ IdleMore
    /\ bm1 \in Benches
    /\ bm2 \in Benches \cup {NoBench}
    /\ labels = <<>>
    /\ market = NoMarket

ComputeMarket ==
    /\ phase = "combine"
    /\ ran = "none"
    /\ market' = compute_market_regime(bm1, bm2)
    /\ ran' = "market"
    /\ UNCHANGED <<be_mode, posFile, row, st, out, sleeveVars, bm1, bm2, labels, phase,
                   gateVars, riskVars, rankVars, runVars, moreVars>>

NextCombine == ComputeMarket
SpecCombine == InitCombine /\ [][NextCombine]_vars

\* ------------------------------------- one instrument of a run (SpecGate)
\* benchmark series that give each regime: above, below and inside the band
\* for REGIME_STABILITY_DAYS + 1 days, one day inside the band after days
\* above it, a series that is too short and one whose last bar is stale
SteadyBars(c) == [k \in 1..WindowLen |-> [close |-> c, ma200 |-> 100]]
GateBenches ==
    {[configured |-> TRUE, present |-> TRUE, bars |-> SteadyBars(c), n |-> 210,
      age_days |-> 0] : c \in {97, 101, 103}}
    \cup {[configured |-> TRUE, present |-> TRUE,
           bars |-> [SteadyBars(103) EXCEPT ![WindowLen] = [close |-> 101, ma200 |-> 100]],
           n |-> 210, age_days |-> 0],
          [configured |-> TRUE, present |-> TRUE, bars |-> SteadyBars(103), n |-> 209,
           age_days |-> 0],
          [configured |-> TRUE, present |-> TRUE, bars |-> SteadyBars(103), n |-> 210,
           age_days |-> max_data_age_days + 1]}

GateRows ==
    {r \in [is_held : BOOLEAN, close : {NaN, 17, 23, 26}, atr_14 : {2}, low_20 : {NaN},
            stop_level : {NaN, 16}, sleeve : {"ETF_CORE", "STOCK_CORE"},
            market_regime : {"UNKNOWN"}, regime : {"TREND"}, adx_14 : {25},
            holding_days : {NaN}, t212_avg_price : {NaN, 20}] :
        /\ r.is_held => (r.close # 23 /\ r.t212_avg_price = 20)
        /\ ~r.is_held => (r.close = 23 /\ r.stop_level = 16 /\ r.t212_avg_price = NaN)}

GateFiles ==
    {NoRow, FileRow(20, 16, 22, NoBook)}

DataOutcomes == {"OK", "INSUFFICIENT_BARS", "STALE_DATA", "EXCEPTION"}

\* what a run can find for an instrument: a data error
SkippedInsts == {[NoInst EXCEPT !.data = d] : d \in DataOutcomes \ {"OK"}}
\* a held instrument: the entry gates and overrides are not evaluated
HeldInsts ==
    {[NoInst EXCEPT !.data = "OK", !.sleeve_status = s, !.validation_ok = v,
                    !.exit_override = e, !.leader_found = l] :
        s \in {"READY", "WATCH", "IGNORE"}, v \in BOOLEAN,
        e \in {"none", "climax_sell", "laggard"}, l \in BOOLEAN}
\* an instrument that is not held: at most one entry gate fails
EntryGates ==
    {g \in [failed : {"none", "anomaly", "liquidity", "di", "atr"},
            early_bird_criteria : BOOLEAN] :
        g.early_bird_criteria => g.failed \in {"none", "di"}}
NewInsts ==
    {[NoInst EXCEPT !.data = "OK", !.data_anomaly = (g.failed = "anomaly"),
                    !.liquidity_ok = (g.failed # "liquidity"),
                    !.di_bearish = (g.failed = "di"),
                    !.atr_pct_over_cap = (g.failed = "atr"),
                    !.early_bird_criteria = g.early_bird_criteria,
                    !.sleeve_status = s, !.ready_downgraded = d,
                    !.fast_follower_criteria = f, !.validation_ok = v,
                    !.heat_blocked = h] :
        g \in EntryGates, s \in {"READY", "WATCH", "IGNORE"}, d \in BOOLEAN,
        f \in BOOLEAN, v \in BOOLEAN, h \in BOOLEAN}
GateInsts(r) == SkippedInsts \cup (IF r.is_held THEN HeldInsts ELSE NewInsts)

InitGate ==
    /\ phase = "gate"
    /\ be_mode = "none" /\ st = NoState /\ out = NoOut /\ ran = "none"
    /\ IdleSleeve /\ IdleRisk /\ IdleRank /\ IdleRun /\ IdleMore
    /\ posFile \in GateFiles
    /\ row \in GateRows
    /\ bm1 \in GateBenches
    /\ bm2 \in GateBenches \cup {NoBench}
    /\ labels = <<>>
    /\ market = NoMarket
    /\ inst \in GateInsts(row)
    \* a leader is a candidate that finished READY, which a run whose regime
    \* is not BULLISH does not have
    /\ inst.leader_found => compute_market_regime(bm1, bm2).market_regime = "BULLISH"
    /\ orow = NoORow

\* main, for the instrument: the market regime, then the row or the skip,
\* and the state file written at the end
GateRun ==
    /\ phase = "gate"
    /\ ran = "none"
    /\ LET m == compute_market_regime(bm1, bm2)
           r == [row EXCEPT !.market_regime = m.market_regime]
           s == read_positions_state(posFile)
           o == compute_stateful_stop(be_mode, r, s)
       IN  /\ market' = m
           /\ row' = r
           /\ st' = s
           /\ IF inst.data # "OK"
              THEN /\ orow' = [NoORow EXCEPT !.skip_reason = inst.data]
                   /\ out' = NoOut
                   /\ posFile' = write_positions_state(s)
              ELSE /\ orow' = [present |-> TRUE, skip_reason |-> "",
                               status |-> main_status(inst, r),
                               held_action |-> main_held_action(inst, r, o.active_stop),
                               active_stop |-> o.active_stop]
                   /\ out' = o
                   /\ posFile' = write_positions_state(state_update(r, s, o))
    /\ ran' = "gate"
    /\ UNCHANGED <<be_mode, sleeveVars, bm1, bm2, labels, inst, riskVars, rankVars,
                   runVars, moreVars, phase>>

NextGate == GateRun
SpecGate == InitGate /\ [][NextGate]_vars

\* ------------------------------------------ the risk columns (SpecRisk)
Instruments ==
    <<[ticker_yf |-> "SGLN.L", sleeve |-> "HEDGE"],
      [ticker_yf |-> "VUSA.L", sleeve |-> "ETF_CORE"],
      [ticker_yf |-> "NVDA", sleeve |-> "STOCK_CORE"]>>
Positions ==
    [t212_quantity : {0, MaxQty}, close : {NaN, 10}, active_stop : {NaN, 8, 12},
     stop_level : {7}, fx_to_gbp_est : {1}]
ClusterMaps ==
    UNION {[d -> {"GOLD", "TECH"}] : d \in SUBSET {"SGLN.L", "VUSA.L", "NVDA"}}

InitRisk ==
    /\ phase = "risk"
    /\ IdleStop /\ ran = "none"
    /\ IdleSleeve /\ IdleRegime /\ IdleGate /\ IdleRank /\ IdleRun /\ IdleMore
    /\ \E ps \in [1..Len(Instruments) -> Positions] :
         pf = [k \in 1..Len(Instruments) |->
                 [ticker_yf |-> Instruments[k].ticker_yf,
                  sleeve |-> Instruments[k].sleeve,
                  t212_quantity |-> ps[k].t212_quantity, close |-> ps[k].close,
                  active_stop |-> ps[k].active_stop, stop_level |-> ps[k].stop_level,
                  fx_to_gbp_est |-> ps[k].fx_to_gbp_est]]
    /\ cluster_map \in ClusterMaps
    /\ risk = NoRisk
    /\ IdleCaps

AddRiskColumns ==
    /\ phase = "risk"
    /\ ran = "none"
    /\ risk' = add_risk_columns(pf, cluster_map)
    /\ ran' = "risk"
    /\ UNCHANGED <<be_mode, posFile, row, st, out, sleeveVars, regimeVars, gateVars,
                   pf, cluster_map, caprow, caps, rankVars, runVars, moreVars, phase>>

NextRisk == AddRiskColumns
SpecRisk == InitRisk /\ [][NextRisk]_vars

\* -------------------------------------------- the rank columns (SpecRank)
\* candidates at the ends of the admissible ranges of every input
Candidates ==
    {r \in [is_held : {FALSE}, status : {"READY", "WATCH"},
            sleeve : {"STOCK_CORE", "ETF_CORE", "STOCK_HIGH_RISK"},
            regime : {"TREND", "RANGE"},
            distance_to_20d_high_pct : {0, 100}, distance_to_55d_high_pct : {0, 100},
            range_position_20_pct : {0, 100},
            adx_14 : {0, 100}, vol_ratio : {0, 7}, extension_atr : {-7, 7},
            trend_efficiency_pct : {20, 50},
            rs_vs_benchmark_pct : {NaN, -MaxRsDropPct, 40}] :
        /\ r.distance_to_20d_high_pct = r.distance_to_55d_high_pct
        /\ r.range_position_20_pct = r.distance_to_20d_high_pct
        \* a WATCH row for the weakest ADX, a READY row for the strongest
        /\ r.status = (IF r.adx_14 = 0 THEN "WATCH" ELSE "READY")}
\* rows add_rank_score does not rank
Unranked ==
    LET c == CHOOSE r \in Candidates : r.sleeve = "STOCK_CORE" /\ r.regime = "TREND"
                  /\ r.status = "READY" /\ r.rs_vs_benchmark_pct = NaN
                  /\ r.distance_to_20d_high_pct = 0 /\ r.vol_ratio = 0
                  /\ r.extension_atr = 7 /\ r.trend_efficiency_pct = 50
    IN  {[c EXCEPT !.is_held = TRUE], [c EXCEPT !.status = "IGNORE"],
         [c EXCEPT !.regime = "AVOID"], [c EXCEPT !.distance_to_20d_high_pct = NaN]}

InitRank ==
    /\ phase = "rank"
    /\ IdleStop /\ ran = "none"
    /\ IdleSleeve /\ IdleRegime /\ IdleGate /\ IdleRisk /\ IdleRun /\ IdleMore
    /\ cands \in [1..2 -> Candidates \cup Unranked]
    /\ ranked = <<>>

AddRankScore ==
    /\ phase = "rank"
    /\ ran = "none"
    /\ ranked' = [k \in DOMAIN cands |-> add_rank_score(cands[k])]
    /\ ran' = "rank"
    /\ UNCHANGED <<be_mode, posFile, row, st, out, sleeveVars, regimeVars, gateVars,
                   riskVars, cands, runVars, moreVars, phase>>

NextRank == AddRankScore
SpecRank == InitRank /\ [][NextRank]_vars

\* ------------------------------------------- exit history and re-entry
WHIPSAW_KILL_SWITCH_ENABLED == TRUE
WHIPSAW_MEMORY_DAYS == 30
WHIPSAW_PENALTY_DAYS == 60
WHIPSAW_TRIGGER_COUNT == 2
REENTRY_ENABLED == TRUE
REENTRY_MIN_PROFIT_R_x2 == 1
REENTRY_COOLDOWN_DAYS == 5
FAST_FOLLOWER_LOOKBACK_DAYS == 10
FAST_FOLLOWER_VOLUME_RATIO_MIN_x10 == 20
FAST_FOLLOWER_REQUIRE_NEW_HIGH == TRUE

\* datetime.strptime(d, "%Y-%m-%d") as a day number; NaN where it raises
\* ("", "nan" and any other text that is not a date)
strptime(d) ==
    CASE d = "2024-12-01" -> 0
      [] d = "2025-01-10" -> 40
      [] d = "2025-01-29" -> 59
      [] d = "2025-01-30" -> 60
      [] d = "2025-01-31" -> 61
      [] d = "2025-02-14" -> 75
      [] d = "2025-02-22" -> 83
      [] d = "2025-02-27" -> 88
      [] d = "2025-03-01" -> 90
      [] d = "2025-03-10" -> 99
      [] d = "2025-03-11" -> 100
      [] OTHER -> NaN

\* (today_dt - dt).days once both dates have parsed
days_between(d, today_date) == strptime(today_date) - strptime(d)
days_since(d) == days_between(d, today_str)

check_whipsaw_blocked_late(s, today_date) ==
    [whipsaw_blocked |->
         /\ WHIPSAW_KILL_SWITCH_ENABLED /\ s.has
         /\ s.whipsaw_count >= WHIPSAW_TRIGGER_COUNT /\ s.last_whipsaw_date # ""
         /\ isfinite(strptime(s.last_whipsaw_date))
         /\ days_between(s.last_whipsaw_date, today_date) <= WHIPSAW_PENALTY_DAYS,
     whipsaw_reason |-> "",
     whipsaw_count |-> IF s.has THEN s.whipsaw_count ELSE 0]

\* check_whipsaw_blocked(ticker, pos_state, today_date), s = pos_state[t]
check_whipsaw_blocked_on(s, today_date) ==
    LET no == [whipsaw_blocked |-> FALSE, whipsaw_reason |-> "",
               whipsaw_count |-> 0]
    IN  IF ~WHIPSAW_KILL_SWITCH_ENABLED THEN no
        ELSE IF ~s.has THEN no
        ELSE IF s.whipsaw_count < WHIPSAW_TRIGGER_COUNT \/ s.last_whipsaw_date = ""
        THEN [no EXCEPT !.whipsaw_count = s.whipsaw_count]
        ELSE IF ~isfinite(strptime(s.last_whipsaw_date))
        THEN [no EXCEPT !.whipsaw_count = s.whipsaw_count]
        ELSE IF days_between(s.last_whipsaw_date, today_date) < WHIPSAW_PENALTY_DAYS
        THEN [whipsaw_blocked |-> TRUE,
              whipsaw_reason |-> "WHIPSAW BLOCKED: {n} stop-hits, {d}d penalty remaining",
              whipsaw_count |-> s.whipsaw_count]
        ELSE [whipsaw_blocked |-> FALSE,
              whipsaw_reason |-> "Whipsaw penalty expired",
              whipsaw_count |-> s.whipsaw_count]

check_whipsaw_blocked_no_reason(s) ==
    [whipsaw_blocked |->
         /\ WHIPSAW_KILL_SWITCH_ENABLED /\ s.has
         /\ s.whipsaw_count >= WHIPSAW_TRIGGER_COUNT /\ s.last_whipsaw_date # ""
         /\ isfinite(strptime(s.last_whipsaw_date))
         /\ days_since(s.last_whipsaw_date) < WHIPSAW_PENALTY_DAYS,
     whipsaw_reason |-> "",
     whipsaw_count |-> IF s.has THEN s.whipsaw_count ELSE 0]

\* the call of a run: today_date is the date of the run
check_whipsaw_blocked(s) == check_whipsaw_blocked_on(s, today_str)


check_reentry_eligible(s) ==
    LET no == [reentry_eligible |-> FALSE, reentry_reason |-> ""]
    IN  IF ~REENTRY_ENABLED THEN no
        ELSE IF ~s.has THEN no
        ELSE IF s.last_exit_date = "" \/ ~isfinite(s.last_exit_profit_R_x2) THEN no
        ELSE IF s.last_exit_profit_R_x2 < REENTRY_MIN_PROFIT_R_x2
        THEN [no EXCEPT !.reentry_reason = "Exit profit too low"]
        ELSE IF ~isfinite(strptime(s.last_exit_date))
        THEN [no EXCEPT !.reentry_reason = "EXIT_DATE_INVALID"]
        ELSE IF days_since(s.last_exit_date) < REENTRY_COOLDOWN_DAYS
        THEN [no EXCEPT !.reentry_reason = "Cooldown: {d}d < {n}d required"]
        ELSE IF check_whipsaw_blocked(s).whipsaw_blocked
        THEN [no EXCEPT !.reentry_reason = check_whipsaw_blocked(s).whipsaw_reason]
        ELSE [reentry_eligible |-> TRUE, reentry_reason |-> "Re-entry OK"]

\* what check_fast_follower_reentry asks of the state record and the row's
\* metrics, once the instrument is known not to be held
fast_follower_criteria(m, s) ==
    /\ s.has
    /\ s.last_exit_reason = "STOP_HIT"
    /\ s.last_exit_date # ""
    /\ isfinite(strptime(s.last_exit_date))
    /\ days_since(s.last_exit_date) <= FAST_FOLLOWER_LOOKBACK_DAYS
    /\ isfinite(m.close) /\ isfinite(m.high_20)
    /\ ~(FAST_FOLLOWER_REQUIRE_NEW_HIGH /\ m.close < m.high_20)
    /\ isfinite(m.vol_ratio_x10)
    /\ m.vol_ratio_x10 >= FAST_FOLLOWER_VOLUME_RATIO_MIN_x10

\* ------------------------------------ the entry rules on a row's metrics
\* Prices are whole numbers, vol_ratio is in tenths (_x10), percentages in
\* points (_pct), dollar_vol_20 in millions; a reason is the fixed text of
\* the code's f-string, its formatted numbers written {..}
DIST_READY_pct == 2
DIST_WATCH_pct == 3
RANGE_POSITION_BOTTOM_pct == 15
RANGE_POSITION_MID_pct == 35
ADX_TREND_THRESHOLD == 20
ADX_STRONG_TREND == 18
ATR_PCT_CAP_ALL_pct == 8
ATR_PCT_CAP_HIGH_RISK_pct == 7
EARLY_BIRD_RANGE_THRESHOLD_pct == 90
EARLY_BIRD_VOLUME_RATIO_MIN_x10 == 15
EARLY_BIRD_ADX_MIN == 15
TREND_EFFICIENCY_MIN_FOR_READY_pct == 30

\* distance_to_{20,55}d_high_pct <= pct, for ((high - close) / high) * 100
dist_le(high, close, pct) == (high - close) * 100 <= pct * high

\* check_early_bird_eligible after its sleeve and market regime tests
early_bird_criteria(m) ==
    LET low_55 == IF isfinite(m.low_55) THEN m.low_55 ELSE m.low_20
    IN  /\ isfinite(m.close) /\ isfinite(m.high_55) /\ isfinite(low_55)
        /\ isfinite(m.adx_14)
        /\ m.high_55 - low_55 > 0
        /\ (m.close - low_55) * 100 >= EARLY_BIRD_RANGE_THRESHOLD_pct * (m.high_55 - low_55)
        /\ isfinite(m.vol_ratio_x10)
        /\ m.vol_ratio_x10 >= EARLY_BIRD_VOLUME_RATIO_MIN_x10
        /\ m.adx_14 >= EARLY_BIRD_ADX_MIN

\* row.get("data_anomaly_block", row.get("data_anomaly", False))
data_anomaly_any_flag(m) == m.data_anomaly_block \/ m.data_anomaly_warn
data_anomaly(m) == m.data_anomaly_block

di_bearish(m) == isfinite(m.plus_di) /\ isfinite(m.minus_di) /\ m.minus_di > m.plus_di

\* atr_pct = atr_14 / close against the sleeve's cap
atr_pct_over_cap(m, sleeve) ==
    LET cap == IF sleeve = "STOCK_HIGH_RISK" THEN ATR_PCT_CAP_HIGH_RISK_pct
               ELSE ATR_PCT_CAP_ALL_pct
    IN  /\ isfinite(m.close) /\ m.close > 0 /\ isfinite(m.atr_14)
        /\ m.atr_14 * 100 > cap * m.close

\* close > breakout and (close - breakout) / atr_14 > EXTENSION_ATR_THRESHOLD
too_extended(m, breakout) ==
    /\ isfinite(breakout) /\ isfinite(m.atr_14) /\ m.atr_14 > 0
    /\ m.close > breakout
    /\ 2 * (m.close - breakout) > m.atr_14

etf_rules(m) ==
    IF ~(m.close > m.ma_200 /\ m.ma_50 > m.ma_200 /\ m.adx_14 >= ADX_STRONG_TREND)
    THEN [regime |-> "IGNORE", status |-> "IGNORE", reason |-> "Regime failed (ETF)",
          stop_level |-> m.low_20]
    ELSE IF too_extended(m, m.high_55)
    THEN [regime |-> "TREND", status |-> "IGNORE",
          reason |-> "Too extended (>0.5 ATR above breakout)",
          stop_level |-> m.low_20]
    ELSE IF m.atr_spiking
    THEN [regime |-> "TREND", status |-> "IGNORE", reason |-> "ATR spiking (vol shock)",
          stop_level |-> m.low_20]
    ELSE IF dist_le(m.high_55, m.close, DIST_READY_pct)
    THEN [regime |-> "TREND", status |-> "READY", reason |-> "{dist}% from 55D High",
          stop_level |-> m.low_20]
    ELSE IF dist_le(m.high_55, m.close, DIST_WATCH_pct)
    THEN [regime |-> "TREND", status |-> "WATCH", reason |-> "{dist}% away",
          stop_level |-> m.low_20]
    ELSE [regime |-> "TREND", status |-> "IGNORE", reason |-> "{dist}% away (>3%)",
          stop_level |-> m.low_20]

\* the tiered volume gate of the TREND block, in tenths
vol_threshold_x10(m, market_regime) ==
    LET base == IF isfinite(m.dollar_vol_musd) /\ m.dollar_vol_musd >= 1000 THEN 8
                ELSE IF isfinite(m.dollar_vol_musd) /\ m.dollar_vol_musd >= 100 THEN 10
                ELSE 12
        bull == IF market_regime = "BULLISH" THEN base - 2 ELSE base
        chase == IF ~dist_le(m.high_20, m.close, 1) THEN bull + 3 ELSE bull
    IN  IF chase > 5 THEN chase ELSE 5

\* _apply_atr_cap
apply_atr_cap(soft_cap, res) ==
    IF soft_cap /\ res.status = "READY"
    THEN [res EXCEPT !.status = "WATCH", !.reason = "{reason} [ATR spike soft cap]"]
    ELSE res

\* "RANGE: Turtle-style (breakout-only, not mean-reversion)"
range_rules(m, regime, soft_cap) ==
    IF m.close > m.high_20
    THEN IF isfinite(m.vol_ratio_x10) /\ m.vol_ratio_x10 >= 8
         THEN apply_atr_cap(soft_cap,
                [regime |-> regime, status |-> "READY",
                 reason |-> "Range breakout above high_20 (vol {v}x ok)",
          stop_level |-> m.low_20])
         ELSE [regime |-> regime, status |-> "WATCH",
               reason |-> "Range breakout above high_20 (need vol >= 0.8x)",
          stop_level |-> m.low_20]
    ELSE LET has_pos == m.high_20 - m.low_20 # 0
             pos_le(pct) == has_pos /\
                 (m.close - m.low_20) * 100 <= pct * (m.high_20 - m.low_20)
         IN  IF pos_le(RANGE_POSITION_BOTTOM_pct)
             THEN [regime |-> regime, status |-> "WATCH",
                   reason |-> "Pos: {pos} (Range bottom - waiting for breakout)",
          stop_level |-> m.low_20]
             ELSE IF pos_le(RANGE_POSITION_MID_pct)
             THEN [regime |-> regime, status |-> "WATCH",
                   reason |-> "Pos: {pos} (Mid-range - waiting for breakout)",
          stop_level |-> m.low_20]
             ELSE [regime |-> regime, status |-> "WATCH",
                   reason |-> "Pos: {pos} (Range top - wait for breakout or retest)",
          stop_level |-> m.low_20]


\* the "Stocks" part of classify
stock_rules(m, market_regime) ==
    LET adx_bullish == isfinite(m.plus_di) /\ isfinite(m.minus_di)
                       /\ m.plus_di > m.minus_di
        soft_cap == m.atr_spiking /\ adx_bullish
        regime == IF m.close > m.ma_200 /\ m.ma_50 > m.ma_200
                     /\ m.adx_14 >= ADX_TREND_THRESHOLD
                  THEN "TREND" ELSE "RANGE"
        is_55d_breakout == /\ dist_le(m.high_55, m.close, DIST_READY_pct)
                           /\ m.close * 100 >= m.high_55 * 99
        atr_collapse_risk == m.atr_collapsing /\ isfinite(m.atr_14) /\ m.atr_14 > 0
        vol_ok == isfinite(m.vol_ratio_x10)
                  /\ m.vol_ratio_x10 >= vol_threshold_x10(m, market_regime)
        above_breakout == 10 * m.close > 10 * m.high_20 + m.atr_14
        trend_stop == pymax(m.high_20 - 2 * m.atr_14, m.low_20)
        ready_dist == dist_le(m.high_20, m.close, DIST_READY_pct)
    IN  IF m.close < m.ma_200
        THEN [regime |-> "AVOID", status |-> "IGNORE",
              reason |-> "Close<200DMA (downtrend)",
              stop_level |-> trend_stop]
        ELSE IF m.atr_spiking /\ ~adx_bullish
        THEN [regime |-> "AVOID", status |-> "IGNORE",
              reason |-> "ATR spiking + ADX bearish (volatile + weakening)",
              stop_level |-> trend_stop]
        ELSE IF regime # "TREND" THEN range_rules(m, regime, soft_cap)
        ELSE IF too_extended(m, m.high_20)
        THEN [regime |-> regime, status |-> "IGNORE",
              reason |-> "Too extended (>0.5 ATR above breakout)",
              stop_level |-> trend_stop]
        ELSE IF atr_collapse_risk /\ ready_dist
        THEN IF vol_ok /\ above_breakout
             THEN apply_atr_cap(soft_cap,
                    [regime |-> regime, status |-> "READY",
                     reason |-> "{dist}% from 20D High (vol ok, ATR collapse tightened)",
              stop_level |-> trend_stop])
             ELSE [regime |-> regime, status |-> "WATCH",
                   reason |-> "{dist}% (ATR collapsing: needs stronger vol)",
              stop_level |-> trend_stop]
        ELSE IF ready_dist
        THEN IF vol_ok
             THEN apply_atr_cap(soft_cap,
                    [regime |-> regime, status |-> "READY",
                     reason |-> "{dist}% from 20D High (vol {req} ok)",
              stop_level |-> trend_stop])
             ELSE [regime |-> regime, status |-> "WATCH",
                   reason |-> "{dist}% from 20D High (need vol {req})",
              stop_level |-> trend_stop]
        ELSE IF dist_le(m.high_20, m.close, DIST_WATCH_pct)
        THEN [regime |-> regime, status |-> "WATCH", reason |-> "{dist}% away",
              stop_level |-> trend_stop]
        ELSE IF is_55d_breakout /\ vol_ok
        THEN apply_atr_cap(soft_cap,
               [regime |-> regime, status |-> "READY",
                reason |-> "55D continuation breakout (stronger trend)",
              stop_level |-> m.low_20])
        ELSE range_rules(m, regime, soft_cap)

\* classify once its gates for new entries have let the row through
sleeve_rules(m, r) ==
    IF r.sleeve = "ETF_CORE" THEN etf_rules(m) ELSE stock_rules(m, r.market_regime)

\* the trend efficiency gate of main
efficiency_gate(m) ==
    /\ TREND_EFFICIENCY_GATE_ENABLED
    /\ isfinite(m.trend_efficiency_pct)
    /\ m.trend_efficiency_pct < TREND_EFFICIENCY_MIN_FOR_READY_pct

\* what main finds for a row with metrics m and state record s: the tests
\* whose outcomes classify and the overrides of main branch on
evaluate(m, r, s) ==
    [data |-> m.data,
     data_anomaly |-> data_anomaly(m),
     liquidity_ok |-> m.liquidity_ok,
     early_bird_criteria |-> early_bird_criteria(m),
     di_bearish |-> di_bearish(m),
     atr_pct_over_cap |-> atr_pct_over_cap(m, r.sleeve),
     sleeve_status |-> sleeve_rules(m, r).status,
     ready_downgraded |-> efficiency_gate(m) \/ check_whipsaw_blocked(s).whipsaw_blocked,
     fast_follower_criteria |-> fast_follower_criteria(m, s),
     validation_ok |-> m.validation_ok,
     heat_blocked |-> m.heat_blocked,
     exit_override |-> m.exit_override,
     leader_found |-> m.leader_found]

\* the reason that goes with classify's status
classify_reason(m, r) ==
    IF ~r.is_held /\ data_anomaly(m)
    THEN "Data anomaly flagged (spike/gap) - skip new entries"
    ELSE IF ~r.is_held /\ ~m.liquidity_ok
    THEN "Liquidity failed (20D dollar volume too low)"
    ELSE IF ~r.is_held /\ ADX_DIRECTION_FILTER
            /\ ~check_early_bird_eligible(evaluate(m, r, NoState), r) /\ di_bearish(m)
    THEN "ADX direction bearish (-DI > +DI)"
    ELSE IF ~r.is_held /\ ATR_PCT_CAP_ENABLED /\ atr_pct_over_cap(m, r.sleeve)
    THEN "ATR% too volatile ({atr_pct} > {cap}) - Sleep Well filter"
    ELSE IF ~r.is_held /\ r.market_regime \in {"BEARISH", "SIDEWAYS", "UNKNOWN"}
    THEN "Market regime not bullish ({market_regime})"
    ELSE sleeve_rules(m, r).reason

\* the reason of the row at the end of the run, override by override
main_reason(m, r, s) ==
    LET i == evaluate(m, r, s)
        s0 == classify(i, r)
        r0 == classify_reason(m, r)
        r1 == IF s0 = "READY" /\ efficiency_gate(m)
              THEN "Efficiency gate: {eff} < {min} min (choppy price action)"
              ELSE IF s0 = "READY" /\ check_whipsaw_blocked(s).whipsaw_blocked
              THEN check_whipsaw_blocked(s).whipsaw_reason
              ELSE r0
        s1 == ready_gates(i, s0)
        r2 == IF check_fast_follower_reentry(i, r) /\ ~r.is_held
              THEN "RE_ENTRY_SQUEEZE: Reclaimed 20d high {d}d after stop-hit, vol {v}x"
              ELSE r1
        s2 == fast_follower_override(i, r, s1)
        r3 == IF ~r.is_held /\ r.market_regime # "BULLISH"
              THEN "Market regime not bullish ({market_regime})" ELSE r2
        s3 == regime_override(r, s2)
        r4 == IF ~i.validation_ok /\ ~r.is_held /\ s3 = "READY"
              THEN "Validation error: {error}" ELSE r3
        s4 == validation_block(i, r, s3)
    IN  IF heat_check(i, r, s4) # s4 THEN "HEAT_CHECK blocked: {why}" ELSE r4

\* which return of classify a row takes: one of its gates for new entries,
\* the risk-off gate, or the rules of its sleeve
classify_return(m, r) ==
    IF ~r.is_held /\ data_anomaly(m) THEN "gate"
    ELSE IF ~r.is_held /\ ~m.liquidity_ok THEN "gate"
    ELSE IF ~r.is_held /\ ADX_DIRECTION_FILTER
            /\ ~check_early_bird_eligible(evaluate(m, r, NoState), r) /\ di_bearish(m)
    THEN "gate"
    ELSE IF ~r.is_held /\ ATR_PCT_CAP_ENABLED /\ atr_pct_over_cap(m, r.sleeve) THEN "gate"
    ELSE IF ~r.is_held /\ r.market_regime \in {"BEARISH", "SIDEWAYS", "UNKNOWN"}
    THEN "risk_off"
    ELSE "rules"

classify_regime(m, r) ==
    CASE classify_return(m, r) = "gate" -> "IGNORE"
      [] classify_return(m, r) = "risk_off" -> r.market_regime
      [] OTHER -> sleeve_rules(m, r).regime

classify_stop_level(m, r) ==
    CASE classify_return(m, r) = "gate" -> NaN
      [] classify_return(m, r) = "risk_off" ->
           IF r.sleeve = "ETF_CORE" THEN m.low_20
           ELSE pymax(m.high_20 - 2 * m.atr_14, m.low_20)
      [] OTHER -> sleeve_rules(m, r).stop_level

\* --------------------------- one instrument of a run, in full (SpecEntry)
PriceLevels ==
    {[close |-> c, high_20 |-> 100, high_55 |-> 100, low_20 |-> 80, low_55 |-> 80] :
        c \in {90, 97, 98, 100}}
    \cup {[close |-> 100, high_20 |-> 100, high_55 |-> 120, low_20 |-> 80,
           low_55 |-> 80]}
TrendInputs ==
    {[ma_50 |-> 90, ma_200 |-> 85, adx_14 |-> 25],
     [ma_50 |-> 90, ma_200 |-> 85, adx_14 |-> 16],
     [ma_50 |-> 90, ma_200 |-> 110, adx_14 |-> 25]}
Directions == {[plus_di |-> 30, minus_di |-> 10], [plus_di |-> 10, minus_di |-> 30]}
\* ATR against its value 20 days ago, against the close, and the efficiency
\* of the price path
Volatilities ==
    {[atr_14 |-> 2, atr_spiking |-> FALSE, atr_collapsing |-> FALSE,
      trend_efficiency_pct |-> 50],
     [atr_14 |-> 2, atr_spiking |-> TRUE, atr_collapsing |-> FALSE,
      trend_efficiency_pct |-> 50],
     [atr_14 |-> 2, atr_spiking |-> FALSE, atr_collapsing |-> TRUE,
      trend_efficiency_pct |-> 50],
     [atr_14 |-> 9, atr_spiking |-> FALSE, atr_collapsing |-> FALSE,
      trend_efficiency_pct |-> 50],
     [atr_14 |-> 2, atr_spiking |-> FALSE, atr_collapsing |-> FALSE,
      trend_efficiency_pct |-> 20]}
VolRatios == {12, 25}
\* validate_ticker_full and, after the loop, check_heat_check
LateBlocks ==
    {[validation_ok |-> TRUE, heat_blocked |-> FALSE],
     [validation_ok |-> FALSE, heat_blocked |-> FALSE],
     [validation_ok |-> TRUE, heat_blocked |-> TRUE]}

\* clean_price_series: a BLOCK is a WARN that is extreme or repeated
DataFlags ==
    {[data_anomaly_block |-> FALSE, data_anomaly_warn |-> FALSE],
     [data_anomaly_block |-> FALSE, data_anomaly_warn |-> TRUE],
     [data_anomaly_block |-> TRUE, data_anomaly_warn |-> TRUE]}

Metrics(p, t, d, v, vr, dq, liq, late, xo, lf) ==
    [data |-> "OK", close |-> p.close, high_20 |-> p.high_20, high_55 |-> p.high_55,
     low_20 |-> p.low_20, low_55 |-> p.low_55, ma_50 |-> t.ma_50, ma_200 |-> t.ma_200,
     adx_14 |-> t.adx_14, plus_di |-> d.plus_di, minus_di |-> d.minus_di,
     atr_14 |-> v.atr_14, atr_spiking |-> v.atr_spiking,
     atr_collapsing |-> v.atr_collapsing,
     trend_efficiency_pct |-> v.trend_efficiency_pct, vol_ratio_x10 |-> vr,
     dollar_vol_musd |-> 50, data_anomaly_block |-> dq.data_anomaly_block,
     data_anomaly_warn |-> dq.data_anomaly_warn,
     liquidity_ok |-> liq, validation_ok |-> late.validation_ok,
     heat_blocked |-> late.heat_blocked, exit_override |-> xo, leader_found |-> lf]

NewMetrics ==
    {Metrics(p, t, d, v, vr, dq, liq, late, "none", FALSE) :
        p \in PriceLevels, t \in TrendInputs, d \in Directions, v \in Volatilities,
        vr \in VolRatios, dq \in DataFlags, liq \in BOOLEAN, late \in LateBlocks}
    \* a stock with no volume data fails the liquidity test
    \cup {Metrics(p, t, d, v, NaN, CHOOSE dq \in DataFlags : ~dq.data_anomaly_warn,
                  FALSE, late, "none", FALSE) :
        p \in PriceLevels, t \in TrendInputs, d \in Directions, v \in Volatilities,
        late \in LateBlocks}
HeldMetrics ==
    {Metrics(p, t, [plus_di |-> 30, minus_di |-> 10], v, 12, dq, TRUE,
             late, xo, lf) :
        p \in PriceLevels, t \in TrendInputs,
        v \in {w \in Volatilities : w.atr_14 = 2}, dq \in DataFlags,
        late \in {l \in LateBlocks : ~l.heat_blocked},
        xo \in {"none", "climax_sell", "laggard"}, lf \in BOOLEAN}
NoMetrics == Metrics([close |-> NaN, high_20 |-> NaN, high_55 |-> NaN, low_20 |-> NaN,
                      low_55 |-> NaN],
                     [ma_50 |-> NaN, ma_200 |-> NaN, adx_14 |-> NaN],
                     [plus_di |-> NaN, minus_di |-> NaN],
                     [atr_14 |-> NaN, atr_spiking |-> FALSE, atr_collapsing |-> FALSE,
                      trend_efficiency_pct |-> NaN],
                     NaN, CHOOSE dq \in DataFlags : ~dq.data_anomaly_warn, TRUE,
                     [validation_ok |-> TRUE, heat_blocked |-> FALSE], "none", FALSE)
SkippedMetrics == {[NoMetrics EXCEPT !.data = d] : d \in DataOutcomes \ {"OK"}}

\* the exit histories a state file row can carry for an instrument that is
\* not held: a profitable exit 15 days ago, a manual exit at a loss 2 days
\* ago, one stop-hit 7 days ago, a second stop-hit 2 days ago
ExitHistories ==
    {[last_exit_date |-> "2025-02-14", last_exit_profit_R_x2 |-> 3,
      last_exit_reason |-> "TARGET", whipsaw_count |-> 0, last_whipsaw_date |-> ""],
     [last_exit_date |-> "2025-02-27", last_exit_profit_R_x2 |-> -1,
      last_exit_reason |-> "MANUAL", whipsaw_count |-> 0, last_whipsaw_date |-> ""],
     [last_exit_date |-> "2025-02-22", last_exit_profit_R_x2 |-> -2,
      last_exit_reason |-> "STOP_HIT", whipsaw_count |-> 1,
      last_whipsaw_date |-> "2025-02-22"],
     [last_exit_date |-> "2025-02-27", last_exit_profit_R_x2 |-> -2,
      last_exit_reason |-> "STOP_HIT", whipsaw_count |-> 2,
      last_whipsaw_date |-> "2025-02-27"]}
NewFiles == {NoRow} \cup {FileRow(NaN, NaN, NaN, b) : b \in ExitHistories}
HeldFiles == {NoRow, FileRow(90, 80, 85, NoBook), FileRow(90, 80, 95, NoBook)}

EntryRows ==
    {[IdleRow EXCEPT !.is_held = h, !.sleeve = sl, !.market_regime = mr,
                     !.t212_avg_price = IF h THEN 90 ELSE NaN] :
        h \in BOOLEAN, sl \in {"ETF_CORE", "STOCK_CORE"},
        mr \in {"BULLISH", "SIDEWAYS"}}

NoERow ==
    [present |-> FALSE, skip_reason |-> "", status |-> "", reason |-> "",
     held_action |-> "", active_stop |-> NaN, stop_level |-> NaN,
     whipsaw_blocked |-> FALSE, reentry_eligible |-> FALSE,
     fast_follower_eligible |-> FALSE]

InitEntry ==
    /\ phase = "entry"
    /\ be_mode = "none" /\ st = NoState /\ out = NoOut /\ ran = "none"
    /\ IdleSleeve /\ IdleRegime /\ IdleRisk /\ IdleRank /\ IdleRun /\ IdleMore
    /\ row \in EntryRows
    /\ inst \in SkippedMetrics \cup (IF row.is_held THEN HeldMetrics ELSE NewMetrics)
    /\ posFile \in (IF row.is_held THEN HeldFiles ELSE NewFiles)
    \* a leader is a candidate that finished READY, which a run whose regime
    \* is not BULLISH does not have
    /\ inst.leader_found => row.market_regime = "BULLISH"
    /\ orow = NoERow

\* the row dict main builds for the instrument, with classify's outputs
build_row(m, row0) ==
    [row0 EXCEPT !.close = m.close, !.atr_14 = m.atr_14, !.low_20 = m.low_20,
                 !.adx_14 = m.adx_14, !.regime = classify_regime(m, row0),
                 !.stop_level = classify_stop_level(m, row0)]

\* the row of the output for an instrument that is not skipped: classify
\* and the gates on READY, the stop engine and the in-place state update,
\* the exit signal, the re-entry checks and the overrides, then the heat
\* check on the finished table
run_outputs(m, r, s, i, o) ==
    [present |-> TRUE, skip_reason |-> "",
     status |-> main_status(i, r),
     reason |-> main_reason(m, r, s),
     held_action |-> main_held_action(i, r, o.active_stop),
     active_stop |-> o.active_stop,
     stop_level |-> IF r.is_held /\ isfinite(o.active_stop)
                    THEN o.active_stop ELSE r.stop_level,
     whipsaw_blocked |-> check_whipsaw_blocked(s).whipsaw_blocked,
     reentry_eligible |-> check_reentry_eligible(state_update(r, s, o)).reentry_eligible,
     fast_follower_eligible |-> check_fast_follower_reentry(i, r)]

run_built(m, r, s) ==
    run_outputs(m, r, s, evaluate(m, r, s), compute_stateful_stop(be_mode, r, s))

run_row(m, row0, s) == run_built(m, build_row(m, row0), s)

\* main, for the instrument: the skip or the row, and the state file
\* written at the end
EntryRun ==
    /\ phase = "entry"
    /\ ran = "none"
    /\ LET s == read_positions_state(posFile)
           r == build_row(inst, row)
           o == compute_stateful_stop(be_mode, r, s)
       IN  /\ st' = s
           /\ IF inst.data # "OK"
              THEN /\ orow' = [NoERow EXCEPT !.skip_reason = inst.data]
                   /\ row' = row
                   /\ out' = NoOut
                   /\ posFile' = write_positions_state(s)
              ELSE /\ orow' = run_row(inst, row, s)
                   /\ row' = r
                   /\ out' = o
                   /\ posFile' = write_positions_state(state_update(r, s, o))
    /\ ran' = "entry"
    /\ UNCHANGED <<be_mode, sleeveVars, regimeVars, inst, riskVars, rankVars,
                   runVars, moreVars, phase>>

NextEntry == EntryRun
SpecEntry == InitEntry /\ [][NextEntry]_vars

\* ------------------------------------------- the risk caps (SpecCaps)
\* Shares of the equity are counted in basis points (0.0075 is 75), amounts
\* are whole pounds and fx_to_gbp_est is 1 where it is resolved.  The row's
\* totals (cluster_risk_gbp and the like) are what the groupby sums of
\* add_risk_columns put into the row.
risk_per_trade_pct_bp == 75
max_open_risk_pct_bp == 700
max_cluster_pct_bp == 3500
MAX_SUPERCLUSTER_RISK_PCT_bp == 5000
MAX_OPEN_RISK_EXPANSION_bp == 850
MAX_POSITIONS == 8

\* fx_reason.str.contains("BLOCK", case=False)
contains_BLOCK(fx_reason) ==
    fx_reason \in {"FX_UNKNOWN_BLOCK", "FX_FETCH_FAILED_BLOCK", "FX_LOOKUP_SKIPPED_BLOCK"}

fx_block_mask(c) ==
    ~isfinite(c.fx_to_gbp_est) \/ c.fx_to_gbp_est <= 0 \/ contains_BLOCK(c.fx_reason)

fx_block_candidates(c) == fx_block_mask(c) /\ ~c.is_held

\* x / total_equity_gbp where the equity is known, else nan; the share is
\* kept as the pair of its numerator and the equity
has_pct(c, x) ==
    isfinite(c.t212_total_equity_gbp) /\ c.t212_total_equity_gbp > 0 /\ isfinite(x)

\* np.isfinite(pct) and (pct + add) > cap, in basis points
pct_exceeds(c, x, add_bp, cap_bp) ==
    has_pct(c, x)
    /\ x * 10000 + add_bp * c.t212_total_equity_gbp > cap_bp * c.t212_total_equity_gbp

\* the old building-stage caps, with 40% for a core position
MAX_POSITION_PCT_old(sleeve, position_count) ==
    IF position_count < 5
    THEN (IF sleeve = "ETF_CORE" THEN 2000
          ELSE IF sleeve = "STOCK_HIGH_RISK" THEN 1200 ELSE 4000)
    ELSE IF position_count < 8
    THEN (IF sleeve = "ETF_CORE" THEN 1800
          ELSE IF sleeve = "STOCK_HIGH_RISK" THEN 1000 ELSE 1500)
    ELSE (IF sleeve = "ETF_CORE" THEN 1500
          ELSE IF sleeve = "STOCK_HIGH_RISK" THEN 800 ELSE 1200)

\* the caps of the portfolio's stage
MAX_POSITION_PCT_bp(sleeve, position_count) ==
    IF position_count < 5
    THEN (IF sleeve = "ETF_CORE" THEN 2000
          ELSE IF sleeve = "STOCK_HIGH_RISK" THEN 1200 ELSE 1800)
    ELSE IF position_count < 8
    THEN (IF sleeve = "ETF_CORE" THEN 1800
          ELSE IF sleeve = "STOCK_HIGH_RISK" THEN 1000 ELSE 1500)
    ELSE (IF sleeve = "ETF_CORE" THEN 1500
          ELSE IF sleeve = "STOCK_HIGH_RISK" THEN 800 ELSE 1200)

MAX_SLEEVE_bp(sleeve, position_count) ==
    IF position_count < 5
    THEN (IF sleeve = "STOCK_HIGH_RISK" THEN 4000 ELSE 8000)
    ELSE IF position_count < 8
    THEN (IF sleeve = "ETF_CORE" THEN 6000
          ELSE IF sleeve = "STOCK_HIGH_RISK" THEN 3000 ELSE 7000)
    ELSE (IF sleeve = "ETF_CORE" THEN 5000
          ELSE IF sleeve = "STOCK_HIGH_RISK" THEN 2500 ELSE 6000)

effective_max_risk_bp(c) ==
    IF c.expansion_allowed THEN MAX_OPEN_RISK_EXPANSION_bp ELSE max_open_risk_pct_bp

\* t212_quantity * close * fx_to_gbp_est of a row that is not held
position_value_gbp(c) ==
    IF isfinite(c.close) /\ isfinite(c.fx_to_gbp_est)
    THEN c.t212_quantity * c.close * c.fx_to_gbp_est ELSE NaN

\* projected_position_pct_est in basis points, rounded down
compute_projected_size(c) ==
    LET equity == c.t212_total_equity_gbp
        risk_per_share ==
            IF isfinite(c.risk_per_share_local) /\ isfinite(c.fx_to_gbp_est)
            THEN c.risk_per_share_local * c.fx_to_gbp_est ELSE NaN
        projected_shares_milli ==
            (equity * risk_per_trade_pct_bp * 1000) \div (10000 * risk_per_share)
    IN  IF c.is_held THEN 0
        ELSE IF ~isfinite(equity) \/ equity <= 0 THEN 0
        ELSE IF ~isfinite(risk_per_share) \/ risk_per_share <= 0 THEN 0
        ELSE IF ~isfinite(c.close) \/ c.close <= 0 THEN 0
        ELSE (projected_shares_milli * c.close * c.fx_to_gbp_est * 10) \div equity

compute_risk_caps_block_reason(c) ==
    IF c.is_held
    THEN (IF c.pyramiding_enabled /\ c.add_eligible THEN "" ELSE "ALREADY_HELD")
    ELSE IF c.status # "READY" THEN ""
    ELSE IF pct_exceeds(c, c.cluster_risk_gbp, risk_per_trade_pct_bp, max_cluster_pct_bp)
    THEN "BLOCK_MAX_CLUSTER_{cluster}"
    ELSE IF pct_exceeds(c, c.super_cluster_risk_gbp, risk_per_trade_pct_bp,
                        MAX_SUPERCLUSTER_RISK_PCT_bp)
    THEN "BLOCK_MAX_SUPERCLUSTER_{super_cluster}"
    ELSE IF pct_exceeds(c, position_value_gbp(c), 0,
                        MAX_POSITION_PCT_bp(c.sleeve, c.position_count_ex_hedge))
    THEN "BLOCK_MAX_POSITION_ACTUAL_{actual_pct}pct"
    ELSE ""

\* the warnings in the order the code appends them; the column joins them
\* with "|"
compute_risk_warning_reason(c) ==
    IF c.is_held \/ c.status # "READY" THEN <<>>
    ELSE (IF c.position_count_ex_hedge >= MAX_POSITIONS
          THEN <<"WARN_MAX_POSITIONS_{count}_of_{max}">> ELSE <<>>)
      \o (IF pct_exceeds(c, c.open_risk_gbp_ex_hedge, risk_per_trade_pct_bp,
                         effective_max_risk_bp(c))
          THEN <<"WARN_OPEN_RISK_BUDGET_{pct}pct_vs_{cap}pct_cap">> ELSE <<>>)
      \o (IF pct_exceeds(c, c.sleeve_value_gbp, risk_per_trade_pct_bp,
                         MAX_SLEEVE_bp(c.sleeve, c.position_count_ex_hedge))
          THEN <<"WARN_SLEEVE_EXPOSURE_{sleeve}">> ELSE <<>>)
      \o (IF compute_projected_size(c)
               > MAX_POSITION_PCT_bp(c.sleeve, c.position_count_ex_hedge)
          THEN <<"WARN_POSITION_CAPPED_{pct}pct_target_vs_{max}pct_max">> ELSE <<>>)

eligible_without_warnings(c) ==
    c.status = "READY" /\ compute_risk_caps_block_reason(c) = ""
      /\ compute_risk_warning_reason(c) = <<>>
eligible(c) == c.status = "READY" /\ compute_risk_caps_block_reason(c) = ""

\* main's heat check on the finished risk columns
heat_check_status(c) ==
    IF HEAT_CHECK_ENABLED /\ ~c.is_held /\ c.status \in {"READY", "WATCH"}
       /\ c.heat_blocked /\ c.status = "READY"
    THEN "WATCH" ELSE c.status

\* the cap columns of the row at the end of the run
risk_caps(c) ==
    [status |-> heat_check_status(c),
     data_anomaly_block |-> c.data_anomaly_block \/ fx_block_candidates(c),
     fx_unresolved_note |-> fx_block_candidates(c),
     projected_position_pct_est_bp |-> compute_projected_size(c),
     risk_caps_block_reason |-> compute_risk_caps_block_reason(c),
     risk_warning_reason |-> compute_risk_warning_reason(c),
     eligible_by_risk_caps |-> eligible(c)]

FxResults ==
    {[fx_to_gbp_est |-> 1, fx_reason |-> "GBP_NATIVE"],
     [fx_to_gbp_est |-> 1, fx_reason |-> "FX:{pair}"],
     [fx_to_gbp_est |-> NaN, fx_reason |-> "FX_UNKNOWN_BLOCK"],
     [fx_to_gbp_est |-> NaN, fx_reason |-> "FX_FETCH_FAILED_BLOCK"]}
HeldFlags ==
    {[is_held |-> FALSE, pyramiding_enabled |-> TRUE, add_eligible |-> FALSE,
      t212_quantity |-> 0],
     [is_held |-> TRUE, pyramiding_enabled |-> TRUE, add_eligible |-> FALSE,
      t212_quantity |-> MaxQty],
     [is_held |-> TRUE, pyramiding_enabled |-> TRUE, add_eligible |-> TRUE,
      t212_quantity |-> MaxQty]}
\* the totals of the row's cluster, super-cluster, sleeve and portfolio
HeldTotals ==
    [cluster_risk_gbp : {0, 400}, super_cluster_risk_gbp : {0, 400, 600}]
Totals ==
    [open_risk_gbp_ex_hedge : {0, 65, 80}, sleeve_value_gbp : {0, 900},
     position_count_ex_hedge : {0, MAX_POSITIONS}, expansion_allowed : BOOLEAN]
RiskPerShares == {NaN, 2, 10}
CapRow(h, status, sleeve, fx, equity, rps, ht, t, heat) ==
    [ticker_yf |-> "NVDA", is_held |-> h.is_held,
     pyramiding_enabled |-> h.pyramiding_enabled, add_eligible |-> h.add_eligible,
     t212_quantity |-> h.t212_quantity, status |-> status, sleeve |-> sleeve,
     fx_to_gbp_est |-> fx.fx_to_gbp_est, fx_reason |-> fx.fx_reason,
     data_anomaly_block |-> FALSE, t212_total_equity_gbp |-> equity,
     close |-> 100, risk_per_share_local |-> rps,
     cluster_risk_gbp |-> ht.cluster_risk_gbp,
     super_cluster_risk_gbp |-> ht.super_cluster_risk_gbp,
     open_risk_gbp_ex_hedge |-> t.open_risk_gbp_ex_hedge,
     sleeve_value_gbp |-> t.sleeve_value_gbp,
     position_count_ex_hedge |-> t.position_count_ex_hedge,
     expansion_allowed |-> t.expansion_allowed, heat_blocked |-> heat]
CapRows ==
    {CapRow(h, status, sleeve, fx, equity, rps, ht, t, heat) :
       h \in HeldFlags, status \in {"READY", "WATCH", "IGNORE"},
       sleeve \in {"STOCK_CORE", "STOCK_HIGH_RISK"}, fx \in FxResults,
       equity \in {NaN, 1000}, rps \in RiskPerShares, ht \in HeldTotals,
       t \in Totals,
       heat \in BOOLEAN}

InitCaps ==
    /\ phase = "caps"
    /\ IdleStop /\ ran = "none"
    /\ IdleSleeve /\ IdleRegime /\ IdleGate /\ IdleRank /\ IdleRun /\ IdleMore
    /\ pf = <<>> /\ cluster_map = <<>> /\ risk = NoRisk
    /\ caprow \in CapRows
    /\ caps = NoCaps

\* add_risk_columns and the heat check of main on the row
CapsRun ==
    /\ phase = "caps"
    /\ ran = "none"
    /\ caps' = risk_caps(caprow)
    /\ ran' = "caps"
    /\ UNCHANGED <<be_mode, posFile, row, st, out, sleeveVars, regimeVars, gateVars,
                   pf, cluster_map, risk, caprow, rankVars, runVars, moreVars, phase>>

NextCaps == CapsRun
SpecCaps == InitCaps /\ [][NextCaps]_vars

\* ------------------------------------------- the whole run (SpecUniverse)
\* The universe is dfu after enforce_unique_underlyings, every ticker once,
\* in a BULLISH market.  Amounts of money are floats: the model keeps
\* MantissaBits significant bits of them (the program's floats keep 53) and
\* rounds a result to the nearest such value, ties to even.
MantissaBits == 3
HEAT_CHECK_CLUSTER_THRESHOLD == 3

RECURSIVE pow2(_)
pow2(n) == IF n = 0 THEN 1 ELSE 2 * pow2(n - 1)

\* the distance between the floats around the number x >= 0
RECURSIVE float_step(_)
float_step(x) == IF x < pow2(MantissaBits) THEN 1 ELSE 2 * float_step(x \div 2)

\* the float nearest to the number x
fl(x) ==
    LET a == IF x < 0 THEN -x ELSE x
        s == float_step(a)
        q == a \div s
        r == a % s
        n == IF 2 * r < s THEN q * s
             ELSE IF 2 * r > s THEN (q + 1) * s
             ELSE IF q % 2 = 0 THEN q * s ELSE (q + 1) * s
    IN  IF x < 0 THEN -n ELSE n

\* Series.sum(skipna=True): the values are added in the order of the rows
RECURSIVE series_sum(_)
series_sum(xs) ==
    IF xs = <<>> THEN 0
    ELSE LET n == Len(xs)
             before == series_sum(SubSeq(xs, 1, n - 1))
         IN  IF isfinite(xs[n]) THEN fl(before + xs[n]) ELSE before

\* groupby(...).transform("sum"): pandas adds the values of a group in the
\* order of the rows with Kahan's compensation
RECURSIVE group_sum(_)
group_sum(xs) ==
    IF xs = <<>> THEN [sumx |-> 0, compensation |-> 0]
    ELSE LET n == Len(xs)
             before == group_sum(SubSeq(xs, 1, n - 1))
             y == fl(xs[n] - before.compensation)
             t == fl(before.sumx + y)
         IN  IF isfinite(xs[n])
             THEN [sumx |-> t, compensation |-> fl(fl(t - before.sumx) - y)]
             ELSE before

\* ((high - close) / high) * 100 in whole percent
dist_pct(high, close) ==
    IF isfinite(high) /\ isfinite(close) /\ high # 0
    THEN ((high - close) * 100) \div high ELSE NaN

\* the columns of the row that add_rank_score reads; the row has no
\* extension_atr column and the benchmark's 3-month return is not known
rank_columns(m, r, status) ==
    [is_held |-> r.is_held, status |-> status, sleeve |-> r.sleeve,
     regime |-> classify_regime(m, r),
     distance_to_20d_high_pct |-> dist_pct(m.high_20, m.close),
     distance_to_55d_high_pct |-> dist_pct(m.high_55, m.close),
     range_position_20_pct |->
        IF isfinite(m.high_20) /\ isfinite(m.low_20) /\ m.high_20 # m.low_20
        THEN ((m.close - m.low_20) * 100) \div (m.high_20 - m.low_20) ELSE NaN,
     adx_14 |-> m.adx_14,
     vol_ratio |-> IF isfinite(m.vol_ratio_x10) THEN m.vol_ratio_x10 \div 10 ELSE NaN,
     extension_atr |-> NaN, trend_efficiency_pct |-> m.trend_efficiency_pct,
     rs_vs_benchmark_pct |-> NaN]

\* the row main appends to out_rows for the instrument u whose state is s
loop_row(u, s) ==
    LET m == [u.m EXCEPT !.heat_blocked = FALSE]
        o == run_row(m, u.row0, s)
    IN  [ticker |-> u.ticker, cluster |-> u.cluster, sleeve |-> u.row0.sleeve,
         is_held |-> u.row0.is_held, t212_quantity |-> u.t212_quantity,
         close |-> m.close, fx_to_gbp_est |-> 1,
         distance_to_20d_high_pct |-> dist_pct(m.high_20, m.close),
         status |-> o.status, reason |-> o.reason, stop_level |-> o.stop_level,
         active_stop |-> o.active_stop, held_action |-> o.held_action]

\* one pass of main's loop, on the instrument u after the passes before it
loop_pass(before, u, s, r) ==
    IF u.m.data # "OK"
    THEN [before EXCEPT !.skips = Append(@, [ticker |-> u.ticker, reason |-> u.m.data])]
    ELSE [out_rows |-> Append(before.out_rows, loop_row(u, s)),
          skips |-> before.skips,
          pos_state |-> [before.pos_state EXCEPT
                           ![u.ticker] =
                               state_update(r, s, compute_stateful_stop(be_mode, r, s))]]

\* main's loop over dfu: an instrument with too few bars, a stale last bar
\* or an exception on its data is skipped, any other gets its row and, if
\* held, its entry of pos_state
RECURSIVE main_loop(_, _)
main_loop(us, pos_state) ==
    IF us = <<>> THEN [out_rows |-> <<>>, skips |-> <<>>, pos_state |-> pos_state]
    ELSE LET n == Len(us)
             before == main_loop(SubSeq(us, 1, n - 1), pos_state)
         IN  loop_pass(before, us[n], before.pos_state[us[n].ticker],
                       build_row(us[n].m, us[n].row0))

\* held_risk_gbp of every row, in the order of the rows
held_risks(rows) ==
    [k \in DOMAIN rows |-> LET x == held_risk_gbp(rows[k])
                           IN  IF isfinite(x) THEN fl(x) ELSE NaN]

\* the held risks of the first j rows whose column has the value v
RECURSIVE pick_group(_, _, _, _)
pick_group(rows, j, column, v) ==
    IF j = 0 THEN <<>>
    ELSE IF rows[j][column] = v
    THEN Append(pick_group(rows, j - 1, column, v), held_risks(rows)[j])
    ELSE pick_group(rows, j - 1, column, v)

\* the rows of the group of row k, in the order of the rows
group_risks(rows, k, column) == pick_group(rows, Len(rows), column, rows[k][column])

RECURSIVE pick_sleeve(_, _, _)
pick_sleeve(rows, j, hedge) ==
    IF j = 0 THEN <<>>
    ELSE IF (rows[j].sleeve = "HEDGE") = hedge
    THEN Append(pick_sleeve(rows, j - 1, hedge), held_risks(rows)[j])
    ELSE pick_sleeve(rows, j - 1, hedge)

sleeve_risks(rows, hedge) == pick_sleeve(rows, Len(rows), hedge)

\* the sum of the rank scores the held rows js of a cluster stand for
RECURSIVE cluster_rank_sum(_, _)
cluster_rank_sum(rows, js) ==
    IF js = {} THEN 0
    ELSE LET j == CHOOSE x \in js : TRUE
             d == rows[j].distance_to_20d_high_pct
         IN  (IF isfinite(d) THEN d ELSE 50) * 1000 * ScoreUnit
               + cluster_rank_sum(rows, js \ {j})

\* check_heat_check on row k of the finished table
check_heat_check(rows, ranks, k) ==
    LET held == {j \in DOMAIN rows : rows[j].is_held /\ rows[j].cluster = rows[k].cluster}
    IN  IF ~HEAT_CHECK_ENABLED \/ rows[k].is_held THEN FALSE
        ELSE IF Cardinality(held) < HEAT_CHECK_CLUSTER_THRESHOLD THEN FALSE
        ELSE IF ~isfinite(ranks[k]) THEN TRUE
        ELSE ~(ranks[k] * 5 * Cardinality(held) <= 4 * cluster_rank_sum(rows, held))

NoURow ==
    [ticker |-> "", status |-> "", reason |-> "", stop_level |-> NaN,
     active_stop |-> NaN, rank_score |-> NaN, cluster_risk_gbp |-> NaN,
     super_cluster_risk_gbp |-> NaN, sleeve_risk_gbp |-> NaN]

\* the instrument of the universe us with the ticker t
inst_of(us, t) == CHOOSE u \in {us[j] : j \in DOMAIN us} : u.ticker = t

\* row k of the table main writes: the heat check and the rank score are
\* computed on the finished table, the totals of its groups by groupby
final_row(u, rows, ranks, k) ==
    LET blocked == ~rows[k].is_held /\ rows[k].status \in {"READY", "WATCH"}
                     /\ check_heat_check(rows, ranks, k)
        o == run_row([u.m EXCEPT !.heat_blocked = blocked], u.row0,
                     read_positions_state(u.f))
    IN  [ticker |-> rows[k].ticker, status |-> o.status, reason |-> o.reason,
         stop_level |-> o.stop_level, active_stop |-> o.active_stop,
         rank_score |-> ranks[k],
         cluster_risk_gbp |-> group_sum(group_risks(rows, k, "cluster")).sumx,
         super_cluster_risk_gbp |-> group_sum(held_risks(rows)).sumx,
         sleeve_risk_gbp |-> group_sum(group_risks(rows, k, "sleeve")).sumx]

\* the rank_score add_rank_score gives the row of the instrument u
row_rank(u, status) == add_rank_score(rank_columns(u.m, u.row0, status)).rank_score

\* main after its loop, to the files it writes.  With no row at all
\* add_risk_columns returns the empty table alone, main's unpacking of the
\* pair raises and the run ends before it writes anything.
after_loop(us, files, rows, skips, pos_state, ranks) ==
    IF rows = <<>>
    THEN [completed |-> FALSE, rows |-> <<>>, skips |-> <<>>,
          open_risk_gbp_total |-> NaN, open_risk_gbp_ex_hedge |-> NaN,
          hedge_risk_gbp |-> NaN, positions_state |-> files]
    ELSE [completed |-> TRUE,
          rows |-> [k \in DOMAIN rows |->
                      final_row(inst_of(us, rows[k].ticker), rows, ranks, k)],
          skips |-> skips,
          open_risk_gbp_total |-> series_sum(held_risks(rows)),
          open_risk_gbp_ex_hedge |-> series_sum(sleeve_risks(rows, FALSE)),
          hedge_risk_gbp |-> series_sum(sleeve_risks(rows, TRUE)),
          positions_state |->
             [t \in DOMAIN files |-> write_positions_state(pos_state[t])]]

with_ranks(us, files, loop) ==
    after_loop(us, files, loop.out_rows, loop.skips, loop.pos_state,
               [k \in DOMAIN loop.out_rows |->
                  row_rank(inst_of(us, loop.out_rows[k].ticker), loop.out_rows[k].status)])

with_loop(us, files) ==
    with_ranks(us, files, main_loop(us, [t \in DOMAIN files |-> read_positions_state(files[t])]))

\* main from the loop to the files it writes
main_run(us) ==
    with_loop(us, [t \in {us[k].ticker : k \in DOMAIN us} |-> inst_of(us, t).f])

\* the row of the ticker in what the run wrote
row_of(sm, t) ==
    IF \E k \in DOMAIN sm.rows : sm.rows[k].ticker = t
    THEN sm.rows[CHOOSE k \in DOMAIN sm.rows : sm.rows[k].ticker = t]
    ELSE NoURow

skip_of(sm, t) ==
    IF \E k \in DOMAIN sm.skips : sm.skips[k].ticker = t
    THEN sm.skips[CHOOSE k \in DOMAIN sm.skips : sm.skips[k].ticker = t].reason
    ELSE ""

TickerOrder == <<"AAA", "BBB", "CCC", "DDD">>
UniverseTickers == {TickerOrder[k] : k \in DOMAIN TickerOrder}
UniverseRow(h) ==
    [IdleRow EXCEPT !.is_held = h, !.sleeve = "STOCK_CORE",
                    !.market_regime = "BULLISH",
                    !.t212_avg_price = IF h THEN 90 ELSE NaN]
UniverseMetrics(close) ==
    Metrics([close |-> close, high_20 |-> 100, high_55 |-> 100, low_20 |-> 80,
             low_55 |-> 80],
            [ma_50 |-> 90, ma_200 |-> 85, adx_14 |-> 25],
            [plus_di |-> 30, minus_di |-> 10],
            [atr_14 |-> 2, atr_spiking |-> FALSE, atr_collapsing |-> FALSE,
             trend_efficiency_pct |-> 50],
            20, [data_anomaly_block |-> FALSE, data_anomaly_warn |-> FALSE], TRUE,
            [validation_ok |-> TRUE, heat_blocked |-> FALSE], "none", FALSE)
\* what a ticker of the universe can be: held with a small or a large
\* quantity, a candidate at its breakout level, or an instrument the loop
\* skips
KindNames == {"HELD_1", "HELD_8", "CANDIDATE", "INSUFFICIENT_BARS", "STALE_DATA"}
Kind(name) ==
    CASE name = "HELD_1" ->
           [m |-> UniverseMetrics(100), row0 |-> UniverseRow(TRUE),
            f |-> FileRow(90, 80, 85, NoBook), t212_quantity |-> 1]
      [] name = "HELD_8" ->
           [m |-> UniverseMetrics(100), row0 |-> UniverseRow(TRUE),
            f |-> FileRow(90, 80, 85, NoBook), t212_quantity |-> 8]
      [] name = "CANDIDATE" ->
           [m |-> UniverseMetrics(98), row0 |-> UniverseRow(FALSE), f |-> NoRow,
            t212_quantity |-> 0]
      [] name = "STALE_DATA" ->
           [m |-> [NoMetrics EXCEPT !.data = "STALE_DATA"], row0 |-> UniverseRow(TRUE),
            f |-> FileRow(90, 80, 85, NoBook), t212_quantity |-> 1]
      [] OTHER ->
           [m |-> [NoMetrics EXCEPT !.data = name], row0 |-> UniverseRow(FALSE),
            f |-> NoRow, t212_quantity |-> 0]
Instrument(t, cluster, kind) ==
    [ticker |-> t, cluster |-> cluster, m |-> kind.m, row0 |-> kind.row0,
     f |-> kind.f, t212_quantity |-> kind.t212_quantity]
\* the instruments of the universe us with their data, in its order
loaded(us) ==
    [k \in DOMAIN us |-> Instrument(us[k].ticker, us[k].cluster, Kind(us[k].kind))]
Universes ==
    {[k \in 1..Cardinality(UniverseTickers) |->
        [ticker |-> order[k], cluster |-> IF order[k] = "DDD" THEN c ELSE "TECH",
         kind |-> kinds[order[k]]]] :
       order \in {o \in [1..Cardinality(UniverseTickers) -> UniverseTickers] :
                    \A i, j \in DOMAIN o : i # j => o[i] # o[j]},
       kinds \in [UniverseTickers -> KindNames], c \in {"TECH", "ENERGY"}}

InitUniverse ==
    /\ phase = "universe"
    /\ IdleStop /\ ran = "none"
    /\ IdleSleeve /\ IdleRegime /\ IdleGate /\ IdleRisk /\ IdleRank
    /\ universe \in Universes
    /\ summary = NoSummary
    /\ IdleMore

UniverseRun ==
    /\ phase = "universe"
    /\ ran = "none"
    /\ summary' = main_run(loaded(universe))
    /\ ran' = "universe"
    /\ UNCHANGED <<be_mode, posFile, row, st, out, sleeveVars, regimeVars, gateVars,
                   riskVars, rankVars, universe, moreVars, phase>>

NextUniverse == UniverseRun
SpecUniverse == InitUniverse /\ [][NextUniverse]_vars

\* ------------------------------- the whipsaw governor, run after run
\* (SpecWhipsaw).  The ticker is not held; its record of pos_state is st.
\* The runs of main take place on the dates of RunDates, in that order.
MaxStopHits == 3
RunDates ==
    <<"2024-12-01", "2025-01-10", "2025-01-29", "2025-01-30", "2025-01-31",
      "2025-02-14", "2025-03-01", "2025-03-10", "2025-03-11">>
later_dates(d) ==
    {RunDates[k] : k \in {j \in DOMAIN RunDates : strptime(RunDates[j]) >= strptime(d)}}
WhipsawStates ==
    {NoState}
    \cup {[NoState EXCEPT !.has = TRUE, !.whipsaw_count = n, !.last_whipsaw_date = d,
                          !.last_exit_date = IF n > 0 THEN "2024-12-01" ELSE "nan",
                          !.last_exit_reason = IF n > 0 THEN "STOP_HIT" ELSE "nan"] :
            n \in 0..MaxStopHits, d \in {"", "nan", "2024-12-01", "2025-01-10"}}

\* the bookkeeping of a stop-hit exit on the date d: the counter counts the
\* stop-hit exits and the date is that of the most recent one
record_stop_hit(s, d) ==
    [s EXCEPT !.has = TRUE, !.whipsaw_count = @ + 1, !.last_whipsaw_date = d,
              !.last_exit_date = d, !.last_exit_reason = "STOP_HIT"]

InitWhipsaw ==
    /\ phase = "whipsaw"
    /\ be_mode = "none" /\ posFile = NoRow /\ row = IdleRow /\ out = NoOut /\ ran = "none"
    /\ IdleSleeve /\ IdleRegime /\ IdleGate /\ IdleRisk /\ IdleRank /\ IdleRun
    /\ st \in WhipsawStates
    /\ run_date = RunDates[1]
    /\ whipsaw_info = NoWhipsaw
    /\ exits = <<>>
    /\ IdleAdds /\ IdleStage

\* a run of main on a date not before the last one: the check of the ticker
WhipsawRun ==
    /\ phase = "whipsaw"
    /\ \E d \in later_dates(run_date) :
         /\ run_date' = d
         /\ whipsaw_info' = check_whipsaw_blocked_on(st, d)
    /\ ran' = "whipsaw"
    /\ UNCHANGED <<be_mode, posFile, row, st, out, sleeveVars, regimeVars, gateVars,
                   riskVars, rankVars, runVars, exits, addVars, stageVars, phase>>

\* between two runs the position is stopped out and the exit is recorded
StopHitExit ==
    /\ phase = "whipsaw"
    /\ st.whipsaw_count < MaxStopHits
    /\ \E d \in later_dates(run_date) :
         /\ exits # <<>> => strptime(d) > strptime(exits[Len(exits)])
         /\ run_date' = d
         /\ st' = record_stop_hit(st, d)
         /\ exits' = Append(exits, d)
    /\ ran' = "exit"
    /\ UNCHANGED <<be_mode, posFile, row, out, sleeveVars, regimeVars, gateVars,
                   riskVars, rankVars, runVars, whipsaw_info, addVars, stageVars,
                   phase>>

NextWhipsaw == WhipsawRun \/ StopHitExit
SpecWhipsaw == InitWhipsaw /\ [][NextWhipsaw]_vars

\* ------------------------------------ the pyramiding signals (SpecAdds)
\* Levels and closes are doubled where a half of the ATR enters
\* (PYRAMID_ADD_1_ATR = 0.5 is 1 in halves, PYRAMID_ADD_2_ATR = 1.0 is 2).
ADD_LIMIT == 2
PYRAMIDING_ENABLED == ADD_LIMIT > 0
PYRAMID_ADD_1_ATR_x2 == 1
PYRAMID_ADD_2_ATR_x2 == 2
PYRAMID_MAX_ADDS == 2

\* the branch on adds_taken, with the first add's level given as lvl_first
add_signals_with(close, adds_taken, lvl_first_x2, lvl1_x2, lvl2_x2) ==
    LET levels == [add_eligible |-> TRUE, add_level_1_x2 |-> lvl1_x2,
                   add_level_2_x2 |-> lvl2_x2]
        ge(level_x2) == isfinite(close) /\ 2 * close >= level_x2
    IN  IF adds_taken >= PYRAMID_MAX_ADDS
        THEN levels @@ [add_action |-> "HOLD",
                        add_reason |-> "Max adds already taken ({PYRAMID_MAX_ADDS})"]
        ELSE IF adds_taken = 0 /\ ge(lvl_first_x2)
        THEN levels @@ [add_action |-> "ADD",
                        add_reason |-> "Add #1 triggered (close >= entry + {PYRAMID_ADD_1_ATR}*ATR)"]
        ELSE IF adds_taken = 1 /\ ge(lvl2_x2)
        THEN levels @@ [add_action |-> "ADD",
                        add_reason |-> "Add #2 triggered (close >= entry + {PYRAMID_ADD_2_ATR}*ATR)"]
        ELSE levels @@ [add_action |-> "WAIT", add_reason |-> "No add trigger met"]

\* both adds at the second level
add_signals_late(close, adds_taken, lvl1_x2, lvl2_x2) ==
    add_signals_with(close, adds_taken, lvl2_x2, lvl1_x2, lvl2_x2)
add_signals(close, adds_taken, lvl1_x2, lvl2_x2) ==
    add_signals_with(close, adds_taken, lvl1_x2, lvl1_x2, lvl2_x2)

compute_add_signals(r, s) ==
    IF ~PYRAMIDING_ENABLED THEN [NoAdd EXCEPT !.add_reason = "PYRAMIDING_DISABLED"]
    ELSE IF ~r.is_held THEN NoAdd
    ELSE IF r.regime # "TREND" THEN [NoAdd EXCEPT !.add_reason = "NOT_TREND_REGIME"]
    ELSE IF ~s.has THEN [NoAdd EXCEPT !.add_reason = "NO_POSITION_STATE"]
    ELSE IF ~isfinite(s.entry_price) THEN [NoAdd EXCEPT !.add_reason = "NO_ENTRY_PRICE"]
    ELSE IF ~isfinite(r.atr_14) \/ r.atr_14 <= 0
    THEN [NoAdd EXCEPT !.add_reason = "NO_VALID_ATR"]
    ELSE add_signals(r.close, s.adds_taken,
                     2 * s.entry_price + PYRAMID_ADD_1_ATR_x2 * r.atr_14,
                     2 * s.entry_price + PYRAMID_ADD_2_ATR_x2 * r.atr_14)

\* the rows and the records of pos_state the signals are computed for: the
\* entry is at 20, the levels of an ATR of 2 are 21 and 22
MaxAddsTaken == 3
AddRows ==
    {[IdleRow EXCEPT !.is_held = h, !.regime = g, !.close = c, !.atr_14 = a] :
       h \in BOOLEAN, g \in {"TREND", "RANGE", "CHOP"}, c \in {NaN, 20, 21, 22, 23},
       a \in {NaN, 0, 2, 4}}
AddStates ==
    {NoState} \cup
    {[NoState EXCEPT !.has = TRUE, !.entry_price = e, !.initial_stop = 16,
                     !.active_stop = 18, !.adds_taken = n] :
       e \in {NaN, 20}, n \in 0..MaxAddsTaken}

InitAdds ==
    /\ phase = "adds"
    /\ be_mode = "none" /\ posFile = NoRow /\ out = NoOut /\ ran = "none"
    /\ IdleSleeve /\ IdleRegime /\ IdleGate /\ IdleRisk /\ IdleRank /\ IdleRun
    /\ IdleGov /\ IdleStage
    /\ row \in AddRows
    /\ st \in AddStates
    /\ add_info = NoAdd

AddsRun ==
    /\ phase = "adds"
    /\ ran = "none"
    /\ add_info' = compute_add_signals(row, st)
    /\ ran' = "adds"
    /\ UNCHANGED <<be_mode, posFile, row, st, out, sleeveVars, regimeVars, gateVars,
                   riskVars, rankVars, runVars, govVars, stageVars, phase>>

NextAdds == AddsRun
SpecAdds == InitAdds /\ [][NextAdds]_vars

\* ----------------------- the ceilings of add_risk_columns (SpecStage)
\* The ceilings depend on the run's configuration (the base ceiling of the
\* open risk and the cluster cap of the command line, the small-account
\* mode) and on the universe (its market regime, the median of adx_14, the
\* number of rows with atr_spiking, the number of held rows outside HEDGE).
MAX_OPEN_RISK_EXPANSION_ENABLED == TRUE
ADX_EXPANSION_THRESHOLD == 25
SMALL_ACCOUNT_SUPERCLUSTER_bp == 6000

\* main's override of the global in the small-account mode
MAX_SUPERCLUSTER_RISK_PCT_of(small_account_mode) ==
    IF small_account_mode THEN SMALL_ACCOUNT_SUPERCLUSTER_bp
    ELSE MAX_SUPERCLUSTER_RISK_PCT_bp

\* atr_spike_pct < 0.50 with atr_spike_pct = count / size, 0 for no rows
expansion_allowed(c) ==
    /\ MAX_OPEN_RISK_EXPANSION_ENABLED
    /\ c.market_regime = "BULLISH"
    /\ isfinite(c.adx_median) /\ c.adx_median >= ADX_EXPANSION_THRESHOLD
    /\ (IF c.universe_size > 0 THEN 2 * c.atr_spiking_count < c.universe_size
        ELSE TRUE)

effective_max_risk(c) ==
    IF expansion_allowed(c) THEN MAX_OPEN_RISK_EXPANSION_bp ELSE c.max_open_risk_pct_bp

cap_mode(position_count) ==
    IF position_count < 5 THEN "BUILDING"
    ELSE IF position_count < 8 THEN "MID_STAGE" ELSE "MATURE"

CapSleeves == {"STOCK_CORE", "ETF_CORE", "STOCK_HIGH_RISK"}

\* the ceilings add_risk_columns works with for the portfolio c
stage_caps(c) ==
    [max_open_risk_pct_default_bp |-> c.max_open_risk_pct_bp,
     max_cluster_pct_default_bp |-> c.max_cluster_pct_bp,
     max_supercluster_pct_default_bp |->
         MAX_SUPERCLUSTER_RISK_PCT_of(c.small_account_mode),
     effective_max_open_risk_pct_bp |-> effective_max_risk(c),
     momentum_expansion_active |-> expansion_allowed(c),
     position_cap_mode |-> cap_mode(c.position_count),
     position_count_for_caps |-> c.position_count,
     MAX_POSITION_PCT_bp |->
         [s \in CapSleeves |-> MAX_POSITION_PCT_bp(s, c.position_count)],
     MAX_SLEEVE_bp |-> [s \in CapSleeves |-> MAX_SLEEVE_bp(s, c.position_count)]]

MaxUniverse == 4
MaxPositionCount == 9
CapIns ==
    [market_regime : {"BULLISH", "SIDEWAYS", "BEARISH"},
     adx_median : {NaN, 24, 25, 30},
     universe_size : {MaxUniverse}, atr_spiking_count : 0..MaxUniverse,
     max_open_risk_pct_bp : {500, 700, 850, 1000},
     max_cluster_pct_bp : {1500, 3500},
     small_account_mode : BOOLEAN,
     position_count : 0..MaxPositionCount]

InitStage ==
    /\ phase = "stage"
    /\ IdleStop /\ ran = "none"
    /\ IdleSleeve /\ IdleRegime /\ IdleGate /\ IdleRisk /\ IdleRank /\ IdleRun
    /\ IdleGov /\ IdleAdds
    /\ capin \in CapIns
    /\ cap_info = NoCapInfo

StageRun ==
    /\ phase = "stage"
    /\ ran = "none"
    /\ cap_info' = stage_caps(capin)
    /\ ran' = "stage"
    /\ UNCHANGED <<be_mode, posFile, row, st, out, sleeveVars, regimeVars, gateVars,
                   riskVars, rankVars, runVars, govVars, addVars, capin, phase>>

NextStage == StageRun
SpecStage == InitStage /\ [][NextStage]_vars

\* ------------------------- runs of main over a record of entries (SpecSeed)
\* The rows of positions_state.csv with their adds_taken and entry_date
\* cells: empty, or one add taken and an entry on 2025-01-10.
SeedRows ==
    {NoRow} \cup
    {[f EXCEPT !.adds_taken = e.adds_taken, !.entry_date = e.entry_date] :
       f \in {g \in FileRows : g.present},
       e \in {[adds_taken |-> NaN, entry_date |-> ""],
              [adds_taken |-> 1, entry_date |-> "2025-01-10"]}}

InitSeed ==
    /\ phase = "runs"
    /\ be_mode = "none"
    /\ IdleSleeve
    /\ IdleRegime
    /\ IdleGate /\ IdleRisk /\ IdleRank /\ IdleRun /\ IdleMore
    /\ posFile \in SeedRows
    /\ ran = "none"
    /\ row = IdleRow
    /\ st = NoState
    /\ out = NoOut

SpecSeed == InitSeed /\ [][NextRuns]_vars

\* ------------------ classify on a stock of a rising market (SpecBreakout)
\* The snapshots compute_metrics can produce for the prices of a grid: the
\* rolling maxima of 20 and of 55 days are taken over windows that end with
\* the latest close, and the 55-day window contains the 20-day window.
GridLow == 95
GridHigh == 100
PriceGrid == GridLow..GridHigh
rolling_highs ==
    {p \in [close : PriceGrid, high_20 : PriceGrid, high_55 : PriceGrid,
            low_20 : {80}, low_55 : {80}] :
        p.close <= p.high_20 /\ p.high_20 <= p.high_55}
BreakoutSnapshots ==
    {Metrics(p, t, [plus_di |-> 30, minus_di |-> 10], v, vr,
             CHOOSE dq \in DataFlags : ~dq.data_anomaly_warn, TRUE,
             [validation_ok |-> TRUE, heat_blocked |-> FALSE], "none", FALSE) :
        p \in rolling_highs, t \in {u \in TrendInputs : u.ma_200 < GridLow},
        v \in {w \in Volatilities : w.atr_14 = 2 /\ w.trend_efficiency_pct = 50},
        vr \in VolRatios}
BreakoutRow ==
    [IdleRow EXCEPT !.is_held = FALSE, !.sleeve = "STOCK_CORE",
                    !.market_regime = "BULLISH"]

InitBreakout ==
    /\ phase = "breakout"
    /\ be_mode = "none" /\ posFile = NoRow /\ st = NoState /\ out = NoOut
    /\ ran = "none"
    /\ IdleSleeve /\ IdleRegime /\ IdleRisk /\ IdleRank /\ IdleRun /\ IdleMore
    /\ row = BreakoutRow
    /\ inst \in BreakoutSnapshots
    /\ orow = NoERow

\* classify on the snapshot
BreakoutRun ==
    /\ phase = "breakout"
    /\ ran = "none"
    /\ orow' = [NoERow EXCEPT !.present = TRUE,
                              !.status = classify(evaluate(inst, row, NoState), row),
                              !.reason = classify_reason(inst, row),
                              !.stop_level = classify_stop_level(inst, row)]
    /\ ran' = "breakout"
    /\ UNCHANGED <<be_mode, posFile, row, st, out, sleeveVars, regimeVars, inst,
                   riskVars, rankVars, runVars, moreVars, phase>>

NextBreakout == BreakoutRun
SpecBreakout == InitBreakout /\ [][NextBreakout]_vars

\* ================================================================ claims
\* the call of compute_stateful_stop on a held row with a finite close
Called == phase = "stop" /\ ran = "held" /\ out.has_update
InitialR == st.entry_price - st.initial_stop
HasR == isfinite(st.entry_price) /\ isfinite(st.initial_stop) /\ InitialR > 0
Profit_x2 == 2 * (row.close - st.entry_price)

\* C1: in every run in which the instrument is held, the active_stop
\* persisted after the run is at least the active_stop persisted after the
\* previous run, whatever the other state fields are.
C1_PersistedStopNeverLoosens ==
    [][(phase = "runs" /\ ran' = "held" /\ posFile.present /\ isfinite(posFile.active_stop))
         => /\ posFile'.present
            /\ isfinite(posFile'.active_stop)
            /\ posFile'.active_stop >= posFile.active_stop]_vars

\* C2: whenever the candidate stop is lower than the previous active stop,
\* the returned active_stop is the previous one and stop_reason records that
\* the prior, higher stop was kept, also when sideways tightening or a
\* profit-protection tier was applied in the same call.
C2_KeptStopIsRecorded ==
    (Called /\ isfinite(st.active_stop) /\ isfinite(out.candidate_stop)
       /\ out.candidate_stop < st.active_stop)
      => /\ out.active_stop = st.active_stop
         /\ out.stop_reason = "STATEFUL (kept higher prev stop)"

\* the breakeven gate of the configuration blocks the row
BEGateBlocks ==
    \/ be_mode = "trend_only"
         /\ (row.regime # "TREND" \/ ~isfinite(row.adx_14) \/ row.adx_14 < BE_ADX_MIN)
    \/ be_mode = "after_days"
         /\ (~isfinite(row.holding_days) \/ row.holding_days < MIN_HOLD_DAYS_FOR_BE)

\* C3: with R > 0 and profit_R >= 1.5 the returned active_stop is at least
\* entry_price, unless the breakeven gate blocks the breakeven tier
\* (1.5 <= profit_R < 2.5); the higher tiers are not gated.
C3_BreakevenFloor ==
    (Called /\ HasR /\ Profit_x2 >= 3 * InitialR
       /\ (Profit_x2 >= 5 * InitialR \/ ~BEGateBlocks))
      => (isfinite(out.active_stop) /\ out.active_stop >= st.entry_price)

\* the breakeven tier itself lifted the stop from below entry to entry
C3_Witness ==
    /\ Called /\ HasR
    /\ Profit_x2 >= 3 * InitialR /\ Profit_x2 < 5 * InitialR
    /\ isfinite(row.stop_level) /\ row.stop_level < st.entry_price
    /\ isfinite(st.active_stop) /\ st.active_stop < st.entry_price
    /\ out.active_stop = st.entry_price

\* C4 as stated: at profit_R >= 3 the active_stop is at least
\* max(entry + R, 20-day low, close - 2*ATR, previous active_stop), at
\* 2.5 <= profit_R < 3 at least entry + 0.5*R, and no tier lowers the
\* candidate.
C4_ProfitLocksAsStated ==
    (Called /\ HasR) =>
      /\ (Profit_x2 >= 6 * InitialR) =>
            /\ out.active_stop >= st.entry_price + InitialR
            /\ isfinite(row.low_20) => out.active_stop >= row.low_20
            /\ isfinite(row.atr_14) => out.active_stop >= row.close - 2 * row.atr_14
            /\ isfinite(st.active_stop) => out.active_stop >= st.active_stop
      /\ (Profit_x2 >= 5 * InitialR /\ Profit_x2 < 6 * InitialR) =>
            2 * out.active_stop >= 2 * st.entry_price + InitialR
      /\ isfinite(out.base_candidate) => out.candidate_stop >= out.base_candidate

\* C4 amended: the close - 2*ATR term counts only when ATR is finite and
\* positive (and the 20-day low and the previous stop only when finite).
C4_ProfitLocks ==
    (Called /\ HasR) =>
      /\ (Profit_x2 >= 6 * InitialR) =>
            /\ out.active_stop >= st.entry_price + InitialR
            /\ isfinite(row.low_20) => out.active_stop >= row.low_20
            /\ (isfinite(row.atr_14) /\ row.atr_14 > 0)
                  => out.active_stop >= row.close - 2 * row.atr_14
            /\ isfinite(st.active_stop) => out.active_stop >= st.active_stop
      /\ (Profit_x2 >= 5 * InitialR /\ Profit_x2 < 6 * InitialR) =>
            2 * out.active_stop >= 2 * st.entry_price + InitialR
      /\ isfinite(out.base_candidate) => out.candidate_stop >= out.base_candidate

\* at 3R or more the close - 2*ATR trail set the stop above the +1R lock,
\* the 20-day low, the classification stop and the previous stop
C4_Witness ==
    /\ Called /\ HasR /\ Profit_x2 >= 6 * InitialR
    /\ isfinite(row.atr_14) /\ row.atr_14 > 0
    /\ out.active_stop = row.close - 2 * row.atr_14
    /\ out.active_stop > st.entry_price + InitialR
    /\ isfinite(row.low_20) /\ out.active_stop > row.low_20
    /\ isfinite(st.active_stop) /\ out.active_stop > st.active_stop
    /\ isfinite(row.stop_level) /\ out.active_stop > row.stop_level

\* the sleeves whose list holds a ticker of underlying key
SleevesOf(key) ==
    {sl \in {"HEDGE", "ETF_CORE", "STOCK_CORE", "STOCK_HIGH_RISK"} :
        LET l == CASE sl = "HEDGE" -> lists.hedge [] sl = "ETF_CORE" -> lists.etfs
                   [] sl = "STOCK_CORE" -> lists.core [] OTHER -> lists.risk
        IN  \E i \in 1..Len(l) : map_ticker(l[i], tmap) = key}
Underlyings ==
    {k \in [sym : {"NVDA", "VUSA"}, dotL : BOOLEAN] : SleevesOf(k) # {}}
PriorityOrder == <<"HEDGE", "ETF_CORE", "STOCK_CORE", "STOCK_HIGH_RISK">>
HighestSleeve(key) ==
    PriorityOrder[CHOOSE i \in 1..4 :
        /\ PriorityOrder[i] \in SleevesOf(key)
        /\ \A j \in 1..(i - 1) : PriorityOrder[j] \notin SleevesOf(key)]
Built == phase = "sleeve" /\ ran = "built"

\* C5: the universe after enforce_unique_underlyings has exactly one row for
\* every underlying of the four lists and no other row, and the row of an
\* underlying carries the highest-priority sleeve whose list names it
\* (HEDGE > ETF_CORE > STOCK_CORE > STOCK_HIGH_RISK).
C5_OneSleevePerUnderlying ==
    Built =>
      /\ \A k \in Underlyings :
            /\ Cardinality({i \in 1..Len(dfu) : dfu[i].ticker_yf = k}) = 1
            /\ \A i \in 1..Len(dfu) :
                 dfu[i].ticker_yf = k => dfu[i].sleeve = HighestSleeve(k)
      /\ \A i \in 1..Len(dfu) : dfu[i].ticker_yf \in Underlyings

\* an underlying named by three lists under two spellings, kept as HEDGE,
\* next to an underlying of one list
C5_Witness ==
    /\ Built
    /\ \E k \in Underlyings :
         /\ SleevesOf(k) = {"HEDGE", "STOCK_CORE", "STOCK_HIGH_RISK"}
         /\ \E i \in 1..Len(dfu) : dfu[i].ticker_yf = k /\ dfu[i].sleeve = "HEDGE"
    /\ Cardinality(Underlyings) = 2
    /\ Len(dfu) = 2

\* C8: a day that follows a day labelled BULLISH or BEARISH and stable is
\* never labelled SIDEWAYS (one day back inside the band does not flip a
\* stable directional regime).
C8_StableDirectionBlocksSideways ==
    (phase = "regime" /\ Len(labels) = 2
       /\ labels[1].regime \in {"BULLISH", "BEARISH"} /\ labels[1].regime_stable)
      => labels[2].regime # "SIDEWAYS"

Regimes == {"BULLISH", "BEARISH", "SIDEWAYS", "UNKNOWN"}
Combined == phase = "combine" /\ ran = "market" /\ bm2.configured

\* C9: with two benchmarks configured the combined market_regime is UNKNOWN
\* if either regime is UNKNOWN, else BEARISH if either is BEARISH, else
\* BULLISH if both are BULLISH, else SIDEWAYS; and it is the same when the
\* two benchmarks are exchanged.
C9_CombinedRegime ==
    Combined =>
      LET r1 == one_regime(bm1).regime
          r2 == one_regime(bm2).regime
          m == market.market_regime
      IN  /\ r1 \in Regimes /\ r2 \in Regimes
          /\ ("UNKNOWN" \in {r1, r2}) => m = "UNKNOWN"
          /\ ("UNKNOWN" \notin {r1, r2} /\ "BEARISH" \in {r1, r2}) => m = "BEARISH"
          /\ (m = "BULLISH") <=> (r1 = "BULLISH" /\ r2 = "BULLISH")
          /\ ("UNKNOWN" \notin {r1, r2} /\ "BEARISH" \notin {r1, r2}
                /\ {r1, r2} # {"BULLISH"}) => m = "SIDEWAYS"
          /\ m = compute_market_regime(bm2, bm1).market_regime

\* one benchmark BULLISH and the other SIDEWAYS: combined SIDEWAYS
C9_Witness ==
    /\ Combined
    /\ one_regime(bm1).regime = "BULLISH"
    /\ one_regime(bm2).regime = "SIDEWAYS"
    /\ market.market_regime = "SIDEWAYS"

RECURSIVE SumOver(_, _)
SumOver(f, S) ==
    IF S = {} THEN 0
    ELSE LET x == CHOOSE y \in S : TRUE IN f[x] + SumOver(f, S \ {x})
RiskAdded == phase = "risk" /\ ran = "risk"
\* the clusters of the rows outside the hedge sleeve, and each one's total
NonHedgeClusters ==
    {risk.cluster[i] : i \in {j \in DOMAIN pf : pf[j].sleeve # "HEDGE"}}
ClusterTotal ==
    [c \in NonHedgeClusters |->
        risk.cluster_risk_gbp[CHOOSE i \in DOMAIN pf : risk.cluster[i] = c]]

\* C6: the cluster_risk_gbp totals of the clusters that hold an instrument
\* outside the hedge sleeve add up to open_risk_gbp_ex_hedge: every held
\* risk outside the hedge sleeve is in exactly one of them and no risk of the
\* hedge sleeve is in any.
C6_ClusterTotalsAddUp ==
    RiskAdded => SumOver(ClusterTotal, NonHedgeClusters) = risk.open_risk_gbp_ex_hedge

Ranked == phase = "rank" /\ ran = "rank"

\* C7: of two ranked candidates in different buckets the one in the bucket
\* of higher priority (the lower rank_bucket) has the strictly lower
\* rank_score, whatever their primary metrics and tie-break inputs.
C7_BucketDominates ==
    Ranked =>
      \A a, b \in DOMAIN cands :
        (ranked[a].rankable /\ ranked[b].rankable
           /\ ranked[a].rank_bucket < ranked[b].rank_bucket)
          => ranked[a].rank_score < ranked[b].rank_score

\* a STOCK_CORE TREND candidate as far from its high as can be, with the
\* worst tie-break inputs, still ranks before a STOCK_CORE RANGE candidate at
\* the bottom of its range with the best ones
C7_Witness ==
    /\ Ranked
    /\ ranked[1].rankable /\ ranked[2].rankable
    /\ ranked[1].rank_bucket = 0 /\ ranked[2].rank_bucket = 1
    /\ cands[1].distance_to_20d_high_pct = 100 /\ cands[2].range_position_20_pct = 0
    /\ cands[1].adx_14 = 0 /\ cands[1].rs_vs_benchmark_pct = -MaxRsDropPct
    /\ cands[1].trend_efficiency_pct = 20
    /\ cands[2].adx_14 = 100 /\ cands[2].rs_vs_benchmark_pct = 40
    /\ cands[2].trend_efficiency_pct = 50
    /\ ranked[1].rank_score < ranked[2].rank_score

GateRan == phase = "gate" /\ ran = "gate"
HeldActions == {"HOLD", "SELL", "EXIT_CLIMAX", "TRIM_LAGGARD", "SWAP_FOR_LEADER"}

\* C10 as stated: when the regime of the run is not BULLISH, every
\* instrument that is not held has a row with status IGNORE and every held
\* instrument has a row with a held_action and its active_stop.
C10_AsStated ==
    (GateRan /\ market.market_regime # "BULLISH") =>
      /\ orow.present
      /\ ~row.is_held => orow.status = "IGNORE"
      /\ row.is_held =>
           (orow.held_action \in HeldActions /\ orow.active_stop = out.active_stop)

\* C10: when the regime of the run is not BULLISH, an instrument that is not
\* held and not skipped for a data error finishes with status IGNORE, and a
\* skipped one has no row at all; a held instrument that is not skipped has
\* a held_action and the active_stop of the stop engine, which is a number
\* whenever the close and either the previous or the candidate stop are.
C10_NoEntryOutsideBullish ==
    (GateRan /\ market.market_regime # "BULLISH") =>
      /\ market.market_regime \in {"BEARISH", "SIDEWAYS", "UNKNOWN"}
      /\ orow.present <=> inst.data = "OK"
      /\ ~orow.present => (orow.status = "" /\ orow.held_action = "")
      /\ (orow.present /\ ~row.is_held) => orow.status = "IGNORE"
      /\ (orow.present /\ row.is_held) =>
           /\ orow.held_action \in HeldActions
           /\ orow.active_stop = compute_stateful_stop(be_mode, row, st).active_stop
           /\ (isfinite(row.close) /\ (isfinite(st.active_stop) \/ isfinite(row.stop_level)))
                => isfinite(orow.active_stop)

\* an instrument that is not held meets the fast-follower criteria in a run
\* whose regime is UNKNOWN because a benchmark is stale, and ends IGNORE
C10_Witness ==
    /\ GateRan
    /\ market.market_regime = "UNKNOWN"
    /\ bm1.age_days > max_data_age_days
    /\ ~row.is_held /\ orow.present
    /\ inst.fast_follower_criteria /\ inst.sleeve_status = "READY"
    /\ inst.early_bird_criteria
    /\ orow.status = "IGNORE"

\* the exit and whipsaw bookkeeping of a state file row, as the next run
\* reads it
Bookkeeping(f) ==
    LET s == read_positions_state(f)
    IN  <<s.last_exit_date, s.last_exit_profit_R_x2, s.last_exit_reason,
          s.whipsaw_count, s.last_whipsaw_date>>

\* C13: no run deletes a PositionState record or clears its exit/whipsaw
\* bookkeeping: a record present before a run is present after it with the
\* same last_exit_date, last_exit_profit_R, last_exit_reason, whipsaw_count
\* and last_whipsaw_date, whether the instrument is held, not held or skipped.
C13_BookkeepingKept ==
    [][(phase = "runs" /\ posFile.present)
         => /\ posFile'.present
            /\ Bookkeeping(posFile') = Bookkeeping(posFile)]_vars

EntryRan == phase = "entry" /\ ran = "entry" /\ orow.present

\* C11: an instrument that is not held and that check_whipsaw_blocked
\* reports blocked in a run does not finish the run READY, also when
\* check_fast_follower_reentry reports it eligible in the same run.
C11_WhipsawBlockWins ==
    (EntryRan /\ ~row.is_held /\ orow.whipsaw_blocked) => orow.status # "READY"

\* C12: an instrument that is not held, has a recorded prior exit and
\* finishes the run READY is re-entry eligible (exit profit at least the
\* minimum, cooldown elapsed, no whipsaw block) unless it is fast-follower
\* eligible.
C12_ReentryRespectsCooldown ==
    (EntryRan /\ ~row.is_held /\ st.has /\ strptime(st.last_exit_date) # NaN
       /\ orow.status = "READY")
      => (orow.reentry_eligible \/ orow.fast_follower_eligible)

\* C15: a stock that is not held, has -DI > +DI and does not qualify for the
\* early-bird bypass finishes the run IGNORE with the reason citing bearish
\* directional movement, whatever its distance to the breakout level and
\* its exit history.
C15_BearishDirectionIgnored ==
    (EntryRan /\ ~row.is_held /\ row.sleeve # "ETF_CORE" /\ di_bearish(inst)
       /\ ~check_early_bird_eligible(evaluate(inst, row, st), row))
      => (orow.status = "IGNORE" /\ orow.reason = "ADX direction bearish (-DI > +DI)")

\* C18: every row of the output carries a status IGNORE, WATCH or READY and
\* a non-empty reason for it.
C18_EveryStatusHasReason ==
    EntryRan => (orow.status \in {"IGNORE", "WATCH", "READY"} /\ orow.reason # "")

C18_Witness ==
    /\ EntryRan /\ ~row.is_held
    /\ sleeve_rules(inst, row).status = "READY"
    /\ orow.whipsaw_blocked /\ ~orow.fast_follower_eligible
    /\ orow.status = "WATCH"
    /\ orow.reason = check_whipsaw_blocked(st).whipsaw_reason

\* C19: two instruments that differ only in the WARN flag get the same
\* status, stop and reason, and two held instruments that differ only in the
\* BLOCK flag get the same active_stop and held_action.
C19_FlagsStayInScope ==
    EntryRan =>
      LET warned == run_row([inst EXCEPT !.data_anomaly_warn = ~@], row, st)
          blocked == run_row([inst EXCEPT !.data_anomaly_block = ~@], row, st)
      IN  /\ ~inst.data_anomaly_block =>
                /\ warned.status = orow.status
                /\ warned.stop_level = orow.stop_level
                /\ warned.active_stop = orow.active_stop
                /\ warned.reason = orow.reason
          /\ (row.is_held /\ inst.data_anomaly_warn) =>
                /\ blocked.active_stop = orow.active_stop
                /\ blocked.held_action = orow.held_action

C19_Witness ==
    /\ EntryRan /\ row.is_held
    /\ inst.data_anomaly_block /\ inst.data_anomaly_warn
    /\ isfinite(orow.active_stop)
    /\ orow.held_action = "SELL"
    /\ run_row([inst EXCEPT !.data_anomaly_block = FALSE], [row EXCEPT !.is_held = FALSE],
               NoState).status
         # run_row(inst, [row EXCEPT !.is_held = FALSE], NoState).status

CapsRan == phase = "caps" /\ ran = "caps"

\* C14: an instrument that is not held and whose currency conversion is not
\* resolved in the run (fx_to_gbp_est missing or <= 0, or an fx_reason
\* containing BLOCK) finishes the run IGNORE: it is not READY and not
\* eligible_by_risk_caps.
C14_UnresolvedFxIgnored ==
    (CapsRan /\ ~caprow.is_held /\ fx_block_mask(caprow))
      => (caps.status = "IGNORE" /\ ~caps.eligible_by_risk_caps)

\* the hard blocks of a candidate: a cap on the cluster's, the
\* super-cluster's or the position's share of the equity is breached
hard_block_applies(c) ==
    \/ pct_exceeds(c, c.cluster_risk_gbp, risk_per_trade_pct_bp, max_cluster_pct_bp)
    \/ pct_exceeds(c, c.super_cluster_risk_gbp, risk_per_trade_pct_bp,
                   MAX_SUPERCLUSTER_RISK_PCT_bp)
    \/ pct_exceeds(c, position_value_gbp(c), 0,
                   MAX_POSITION_PCT_bp(c.sleeve, c.position_count_ex_hedge))

\* the row with the inputs of the soft conditions replaced
with_soft(c, t, rps) ==
    [c EXCEPT !.open_risk_gbp_ex_hedge = t.open_risk_gbp_ex_hedge,
              !.sleeve_value_gbp = t.sleeve_value_gbp,
              !.position_count_ex_hedge = t.position_count_ex_hedge,
              !.expansion_allowed = t.expansion_allowed,
              !.risk_per_share_local = rps]

BLOCK_codes ==
    {"BLOCK_MAX_CLUSTER_{cluster}", "BLOCK_MAX_SUPERCLUSTER_{super_cluster}",
     "BLOCK_MAX_POSITION_ACTUAL_{actual_pct}pct"}
WARN_codes ==
    {"WARN_MAX_POSITIONS_{count}_of_{max}",
     "WARN_OPEN_RISK_BUDGET_{pct}pct_vs_{cap}pct_cap",
     "WARN_SLEEVE_EXPOSURE_{sleeve}",
     "WARN_POSITION_CAPPED_{pct}pct_target_vs_{max}pct_max"}

\* C16: for a READY candidate that is not held, eligible_by_risk_caps is
\* false exactly when the cluster cap, the super-cluster cap or the realized
\* position-size cap is breached, and then the block reason is a BLOCK_
\* code; the soft conditions (open-risk budget, sleeve concentration,
\* position count, projected position size) only add WARN_ codes and change
\* neither eligible_by_risk_caps nor the block reason nor the status.
C16_OnlyHardBlocksRemoveEligibility ==
    (CapsRan /\ ~caprow.is_held /\ caprow.status = "READY") =>
      /\ caps.eligible_by_risk_caps = ~hard_block_applies(caprow)
      /\ hard_block_applies(caprow) = (caps.risk_caps_block_reason \in BLOCK_codes)
      /\ ~hard_block_applies(caprow) => caps.risk_caps_block_reason = ""
      /\ \A k \in 1..Len(caps.risk_warning_reason) :
            caps.risk_warning_reason[k] \in WARN_codes
      /\ \A t \in Totals, rps \in RiskPerShares :
            LET other == risk_caps(with_soft(caprow, t, rps))
            IN  /\ other.eligible_by_risk_caps = caps.eligible_by_risk_caps
                /\ other.risk_caps_block_reason = caps.risk_caps_block_reason
                /\ other.status = caps.status

C16_Witness ==
    /\ CapsRan /\ ~caprow.is_held /\ caprow.status = "READY"
    /\ caps.risk_caps_block_reason = "BLOCK_MAX_CLUSTER_{cluster}"
    /\ ~caps.eligible_by_risk_caps
    /\ Len(caps.risk_warning_reason) = 4
    /\ LET free == risk_caps([caprow EXCEPT !.cluster_risk_gbp = 0,
                                            !.super_cluster_risk_gbp = 0])
       IN  free.eligible_by_risk_caps /\ Len(free.risk_warning_reason) = 4

UniverseRan == phase = "universe" /\ ran = "universe"

\* the universe without the instruments the loop skips
without_skipped(us) == SelectSeq(us, LAMBDA u : u.m.data = "OK")

\* C17: a run in which instruments are skipped completes; every skipped
\* instrument has its skip reason recorded and no row, and every other
\* instrument has the status, stop and reason it has in a run whose
\* universe leaves the skipped instruments out.
C17_SkipsAreIsolated ==
    (UniverseRan /\ \E k \in DOMAIN universe : loaded(universe)[k].m.data # "OK") =>
      /\ summary.completed
      /\ \A k \in DOMAIN universe :
            LET u == loaded(universe)[k]
                mine == row_of(summary, u.ticker)
                other == row_of(main_run(without_skipped(loaded(universe))), u.ticker)
            IN  IF u.m.data # "OK"
                THEN skip_of(summary, u.ticker) = u.m.data /\ mine = NoURow
                ELSE /\ mine # NoURow
                     /\ mine.status = other.status
                     /\ mine.stop_level = other.stop_level
                     /\ mine.active_stop = other.active_stop
                     /\ mine.reason = other.reason

\* the universe in the order of TickerOrder
reordered(us) ==
    [k \in DOMAIN us |-> CHOOSE u \in {us[j] : j \in DOMAIN us} :
                            u.ticker = TickerOrder[k]]

failing_gates ==
    <<data_anomaly(inst),
      ~inst.liquidity_ok,
      ADX_DIRECTION_FILTER /\ di_bearish(inst)
        /\ ~check_early_bird_eligible(evaluate(inst, row, st), row),
      ATR_PCT_CAP_ENABLED /\ atr_pct_over_cap(inst, row.sleeve),
      row.market_regime # "BULLISH">>
gate_reasons ==
    <<"Data anomaly flagged (spike/gap) - skip new entries",
      "Liquidity failed (20D dollar volume too low)",
      "ADX direction bearish (-DI > +DI)",
      "ATR% too volatile ({atr_pct} > {cap}) - Sleep Well filter",
      "Market regime not bullish ({market_regime})">>
first_failing_gate ==
    CHOOSE g \in DOMAIN failing_gates :
      failing_gates[g] /\ \A h \in 1..(g - 1) : ~failing_gates[h]

\* C21: an instrument that is not held and fails two or more entry gates
\* finishes the run IGNORE with the reason of the earliest gate it fails.
C21_FirstFailingGateWins ==
    (EntryRan /\ ~row.is_held
       /\ Cardinality({g \in DOMAIN failing_gates : failing_gates[g]}) >= 2) =>
      /\ orow.status = "IGNORE"
      /\ orow.reason = gate_reasons[first_failing_gate]

WhipsawRan == phase = "whipsaw" /\ ran = "whipsaw"

\* the days from the last recorded whipsaw to the run; NaN without a date
days_elapsed ==
    IF isfinite(strptime(st.last_whipsaw_date))
    THEN strptime(run_date) - strptime(st.last_whipsaw_date) ELSE NaN

\* C22: in every run the ticker is reported blocked exactly when its
\* whipsaw_count has reached WHIPSAW_TRIGGER_COUNT and fewer than
\* WHIPSAW_PENALTY_DAYS have elapsed since last_whipsaw_date, so that no
\* run at or after the end of the penalty window reports it blocked; the
\* check reports the counter as it is and the run leaves the state as it was.
C22_BlockedWithinPenaltyWindowOnly ==
    /\ [](WhipsawRan =>
            /\ whipsaw_info.whipsaw_blocked <=>
                 /\ st.has /\ st.whipsaw_count >= WHIPSAW_TRIGGER_COUNT
                 /\ isfinite(days_elapsed) /\ days_elapsed < WHIPSAW_PENALTY_DAYS
            /\ whipsaw_info.whipsaw_count = st.whipsaw_count)
    /\ [][ran' = "whipsaw" => st' = st]_vars

C22_Witness ==
    /\ WhipsawRan
    /\ st.whipsaw_count >= WHIPSAW_TRIGGER_COUNT
    /\ days_elapsed = WHIPSAW_PENALTY_DAYS
    /\ ~whipsaw_info.whipsaw_blocked
    /\ whipsaw_info.whipsaw_count = st.whipsaw_count

\* the recorded stop-hit exits that lie in the memory window opening with
\* exit i
exits_in_window(i) ==
    {j \in DOMAIN exits :
       /\ strptime(exits[j]) >= strptime(exits[i])
       /\ strptime(exits[j]) - strptime(exits[i]) <= WHIPSAW_MEMORY_DAYS}

\* C23: a ticker all of whose stop-hit exits are recorded and whose memory
\* windows each hold fewer than WHIPSAW_TRIGGER_COUNT of them is not
\* reported blocked.
C23_SpreadExitsDoNotBlock ==
    (WhipsawRan /\ st.whipsaw_count = Len(exits)
       /\ \A i \in DOMAIN exits : Cardinality(exits_in_window(i)) < WHIPSAW_TRIGGER_COUNT)
      => ~whipsaw_info.whipsaw_blocked

\* the call of compute_add_signals on the row and the record
AddsRan == phase = "adds" /\ ran = "adds"
\* the multiple of the ATR of the next add not yet taken, in halves
next_add_atr_x2 ==
    IF st.adds_taken = 0 THEN PYRAMID_ADD_1_ATR_x2 ELSE PYRAMID_ADD_2_ATR_x2
NextLevelCrossed ==
    /\ isfinite(row.close) /\ isfinite(st.entry_price) /\ isfinite(row.atr_14)
    /\ 2 * row.close >= 2 * st.entry_price + next_add_atr_x2 * row.atr_14
\* a held TREND position of which the entry price and the ATR are known
AddsApply ==
    /\ PYRAMIDING_ENABLED /\ row.is_held /\ row.regime = "TREND"
    /\ st.has /\ isfinite(st.entry_price) /\ isfinite(row.atr_14) /\ row.atr_14 > 0

\* C24: compute_add_signals returns ADD only for a held position in the TREND
\* regime, with pyramiding enabled, a finite entry price, fewer adds taken
\* than the maximum and a close at or above entry + k * ATR of the next add
\* (0.5 for the first, 1.0 for the second); for such a position it returns
\* HOLD exactly when adds_taken has reached the maximum and WAIT exactly when
\* the next level is not crossed; outside of them it returns no action; and
\* the call leaves the record of pos_state, adds_taken with it, as it was.
C24_AddOnlyAcrossTheNextLevel ==
    /\ [](AddsRan =>
            /\ add_info.add_action = "ADD" =>
                 /\ AddsApply
                 /\ st.adds_taken < PYRAMID_MAX_ADDS
                 /\ NextLevelCrossed
            /\ AddsApply =>
                 /\ add_info.add_action = "HOLD" <=> st.adds_taken >= PYRAMID_MAX_ADDS
                 /\ st.adds_taken < PYRAMID_MAX_ADDS =>
                      (add_info.add_action = "WAIT" <=> ~NextLevelCrossed)
            /\ ~AddsApply => add_info.add_action = "")
    /\ [][ran' = "adds" => st' = st]_vars

\* the second add of a position: the close is at the second level
C24_Witness ==
    /\ AddsRan /\ AddsApply /\ st.adds_taken = 1
    /\ 2 * row.close = 2 * st.entry_price + PYRAMID_ADD_2_ATR_x2 * row.atr_14
    /\ add_info.add_action = "ADD"

\* add_risk_columns has chosen the ceilings of the portfolio
StageRan == phase = "stage" /\ ran = "stage"

\* C25: in every run the effective_max_open_risk_pct differs from the
\* configured base ceiling only when expansion is enabled, the market is
\* BULLISH, the median ADX of the universe is at least
\* ADX_EXPANSION_THRESHOLD and fewer than half of the universe is
\* ATR-spiking, and whenever it differs it is strictly higher than the base,
\* whatever base is configured.
C25_ExpansionOnlyRaisesTheCeiling ==
    (StageRan /\ cap_info.effective_max_open_risk_pct_bp # capin.max_open_risk_pct_bp)
      => /\ MAX_OPEN_RISK_EXPANSION_ENABLED
         /\ capin.market_regime = "BULLISH"
         /\ isfinite(capin.adx_median)
         /\ capin.adx_median >= ADX_EXPANSION_THRESHOLD
         /\ 2 * capin.atr_spiking_count < capin.universe_size
         /\ cap_info.effective_max_open_risk_pct_bp > capin.max_open_risk_pct_bp

\* C26: with the default cluster cap of 0.35, for every number n of held
\* positions outside HEDGE the stage is BUILDING for n < 5, MID_STAGE for
\* 5 <= n < 8 and MATURE for n >= 8; every per-position cap of the stage is
\* at most the cluster cap, which is at most the super-cluster cap (0.50, or
\* 0.60 in the small-account mode); every per-position cap is at most the cap
\* of its sleeve; and no per-position or per-sleeve cap is higher than it is
\* for a smaller n.
C26_StagedCapsWithoutInversion ==
    (StageRan /\ capin.max_cluster_pct_bp = max_cluster_pct_bp)
      => /\ cap_info.position_cap_mode =
              (IF capin.position_count < 5 THEN "BUILDING"
               ELSE IF capin.position_count < 8 THEN "MID_STAGE" ELSE "MATURE")
         /\ cap_info.max_supercluster_pct_default_bp =
              (IF capin.small_account_mode THEN 6000 ELSE 5000)
         /\ cap_info.max_cluster_pct_default_bp
              <= cap_info.max_supercluster_pct_default_bp
         /\ \A s \in CapSleeves :
              /\ cap_info.MAX_POSITION_PCT_bp[s] <= cap_info.max_cluster_pct_default_bp
              /\ cap_info.MAX_POSITION_PCT_bp[s] <= cap_info.MAX_SLEEVE_bp[s]
              /\ \A n \in 0..capin.position_count :
                   /\ cap_info.MAX_POSITION_PCT_bp[s] <= MAX_POSITION_PCT_bp(s, n)
                   /\ cap_info.MAX_SLEEVE_bp[s] <= MAX_SLEEVE_bp(s, n)

\* a building portfolio in the small-account mode at the default cluster cap
C26_Witness ==
    /\ StageRan /\ capin.max_cluster_pct_bp = max_cluster_pct_bp
    /\ capin.small_account_mode /\ capin.position_count = 4
    /\ cap_info.position_cap_mode = "BUILDING"
    /\ cap_info.MAX_POSITION_PCT_bp["ETF_CORE"] = 2000

\* the record of the instrument as a run reads it from the file
Before == read_positions_state(posFile)
After == read_positions_state(posFile')

\* C27: a run in which the instrument is held and its record has no finite
\* entry_price leaves a record with a finite entry_price and initial_stop and
\* the run's date as entry_date; and a run in which it is held and its record
\* has a finite entry_price and initial_stop leaves entry_price,
\* initial_stop, entry_date and adds_taken as they were.
C27_RiskUnitFixedAtEntry ==
    [][(phase = "runs" /\ ran' = "held") =>
         /\ ~isfinite(Before.entry_price) =>
              /\ After.has
              /\ isfinite(After.entry_price)
              /\ isfinite(After.initial_stop)
              /\ After.entry_date = today_str
         /\ (isfinite(Before.entry_price) /\ isfinite(Before.initial_stop)) =>
              /\ After.entry_price = Before.entry_price
              /\ After.initial_stop = Before.initial_stop
              /\ After.entry_date = Before.entry_date
              /\ After.adds_taken = Before.adds_taken]_vars

\* the second half alone
C27_FixedOnceSeeded ==
    [][(phase = "runs" /\ ran' = "held"
        /\ isfinite(Before.entry_price) /\ isfinite(Before.initial_stop)) =>
         /\ After.entry_price = Before.entry_price
         /\ After.initial_stop = Before.initial_stop
         /\ After.entry_date = Before.entry_date
         /\ After.adds_taken = Before.adds_taken]_vars

\* classify has returned through the 55-day continuation breakout
Continuation55(m, r) ==
    /\ classify(evaluate(m, r, NoState), r) = "READY"
    /\ classify_reason(m, r) = "55D continuation breakout (stronger trend)"
    /\ classify_stop_level(m, r) = m.low_20

\* C28: there is a snapshot of the indicator engine (close <= 20-day high <=
\* 55-day high) of a stock that is not held, in the TREND regime, farther
\* than the WATCH threshold of 3% from its 20-day high, that classify makes
\* READY through the 55-day continuation breakout, with the 20-day low as its
\* stop.
C28_ContinuationEntryReachable ==
    phase = "breakout" =>
      \E m \in BreakoutSnapshots :
          /\ m.close <= m.high_20 /\ m.high_20 <= m.high_55
          /\ classify_regime(m, row) = "TREND"
          /\ ~dist_le(m.high_20, m.close, DIST_WATCH_pct)
          /\ Continuation55(m, row)

\* no run of classify on a snapshot returns through the 55-day continuation
C28_ContinuationNeverTaken ==
    (phase = "breakout" /\ ran = "breakout")
      => orow.reason # "55D continuation breakout (stronger trend)"

\* the trend stocks beyond the WATCH distance are there, and fall to the
\* rules of the range
C28_BeyondWatchSeen ==
    /\ phase = "breakout" /\ ran = "breakout"
    /\ classify_regime(inst, row) = "TREND"
    /\ ~dist_le(inst.high_20, inst.close, DIST_WATCH_pct)
    /\ inst.vol_ratio_x10 >= vol_threshold_x10(inst, row.market_regime)

\* the stop the exit signal of the run uses: the active_stop just computed,
\* else the stop of the classification (the 20-day low for an ETF)
StopInUse ==
    IF isfinite(orow.active_stop) THEN orow.active_stop
    ELSE IF row.sleeve = "ETF_CORE" THEN row.low_20 ELSE row.stop_level
StopHit == isfinite(row.close) /\ isfinite(StopInUse) /\ row.close < StopInUse

\* C29: for a held instrument the held_action of the run is SELL exactly
\* when the close is below the stop in use, and neither the climax check nor
\* the laggard purge nor the swap for a leader puts EXIT_CLIMAX, TRIM_LAGGARD
\* or SWAP_FOR_LEADER in the place of that SELL.
C29_StopHitSellPrecedes ==
    (EntryRan /\ row.is_held) =>
        /\ orow.held_action = "SELL" <=> StopHit
        /\ StopHit => orow.held_action
                        \notin {"EXIT_CLIMAX", "TRIM_LAGGARD", "SWAP_FOR_LEADER"}
        /\ ~StopHit =>
             orow.held_action \in {"HOLD", "EXIT_CLIMAX", "TRIM_LAGGARD", "SWAP_FOR_LEADER"}

\* a laggard with a leader to swap for, below its stop
C29_Witness ==
    /\ EntryRan /\ row.is_held /\ StopHit
    /\ inst.exit_override = "laggard" /\ inst.leader_found
    /\ orow.held_action = "SELL"

\* C30: in the output of a run a row with eligible_by_risk_caps true has
\* the status READY: the steps after add_risk_columns leave no row whose
\* status is WATCH or IGNORE marked eligible.
C30_EligibleRowsAreReady ==
    (CapsRan /\ caps.eligible_by_risk_caps) => caps.status = "READY"

====
